---- MODULE Spec2Model ----
(***************************************************************************)
(* A model of keama's parser (src/keama/parse.c): the numeric codec        *)
(* (convert_num), the expression context classifier, the binary            *)
(* expression parser, the statement parser and the scope-sensitive config  *)
(* rewriter.                                                               *)
(*                                                                         *)
(* Conventions.                                                            *)
(*  - A C string is a sequence of character codes; reading past its end    *)
(*    gives the terminating NUL (0).                                       *)
(*  - A uint32_t is a record [hi, lo] of two 16-bit halves, because the    *)
(*    model checker's integers are 32-bit signed; all uint32_t arithmetic  *)
(*    wraps modulo 2^32 as in C.  The int arithmetic of convert_num        *)
(*    (1 << (size - 1)) is computed on the same 32-bit patterns, i.e. as   *)
(*    two's-complement wrap-around.                                        *)
(*  - parse_error is fatal (it does not return): an operator that models   *)
(*    a parsing function returns a record whose st field is "ok" (returned *)
(*    true), "false" (returned false) or "fatal" (parse_error was called). *)
(***************************************************************************)
EXTENDS Integers, Sequences, FiniteSets, TLC

VARIABLES num, cfile, out, decl

vars == <<num, cfile, out, decl>>

(***************************************************************************)
(* Bounds of the model.                                                    *)
(***************************************************************************)
MaxDigits == 3

(***************************************************************************)
(* Character codes used by convert_num.                                    *)
(***************************************************************************)
ChMinus == 45
Ch0 == 48
ChUpperA == 65
ChLowerA == 97
ChLowerX == 120

Half == 2 ^ 16

(***************************************************************************)
(* uint32_t as two 16-bit halves.                                          *)
(***************************************************************************)
U32(h, l) == [hi |-> h, lo |-> l]

U32Zero == U32(0, 0)

\* val * base + tval on uint32_t (wraps modulo 2^32); base <= 16, tval < 64
MulAdd32(v, base, tval) ==
    LET l == v.lo * base + tval
        h == v.hi * base + (l \div Half)
    IN  U32(h % Half, l % Half)

\* a + b on 32-bit patterns
Add32(a, b) ==
    LET l == a.lo + b.lo
        h == a.hi + b.hi + (l \div Half)
    IN  U32(h % Half, l % Half)

\* -a on 32-bit patterns (two's complement)
Neg32(a) ==
    IF a.lo = 0 THEN U32((Half - a.hi) % Half, 0)
    ELSE U32((Half - 1) - a.hi, Half - a.lo)

\* a - 1 on 32-bit patterns
Dec32(a) == Add32(a, U32(Half - 1, Half - 1))

\* unsigned comparison a > b
Gt32(a, b) == (a.hi > b.hi) \/ (a.hi = b.hi /\ a.lo > b.lo)

\* 1 << n for 0 <= n <= 31, as a 32-bit pattern
Shl1(n) == IF n < 16 THEN U32(0, 2 ^ n) ELSE U32(2 ^ (n - 16), 0)

(***************************************************************************)
(* Host byte order and the put* helpers (parse.c 4357-4383).  le is TRUE   *)
(* on a little-endian host.  htonl/htons swap bytes on such a host and     *)
(* memcpy copies the object representation in host order.                  *)
(***************************************************************************)
Byte0(x) == x % 256

Byte1(x) == (x \div 256) % 256

\* htonl on a 32-bit pattern
htonl(v, le) ==
    IF le THEN U32(Byte0(v.lo) * 256 + Byte1(v.lo), Byte0(v.hi) * 256 + Byte1(v.hi))
    ELSE v

\* htons on the low 16 bits of its argument
htons(x, le) == IF le THEN Byte0(x) * 256 + Byte1(x) ELSE x % Half

\* memcpy(obuf, &tmp, 4) of a 32-bit object
MemBytes32(v, le) ==
    IF le THEN <<Byte0(v.lo), Byte1(v.lo), Byte0(v.hi), Byte1(v.hi)>>
    ELSE <<Byte1(v.hi), Byte0(v.hi), Byte1(v.lo), Byte0(v.lo)>>

\* memcpy(obuf, &tmp, 2) of a 16-bit object
MemBytes16(x, le) == IF le THEN <<Byte0(x), Byte1(x)>> ELSE <<Byte1(x), Byte0(x)>>

putULong(val, le) == MemBytes32(htonl(val, le), le)

putLong(val, le) == MemBytes32(htonl(val, le), le)

putUShortNoSwap(val, le) == MemBytes16(val.lo, le)

putUShort(val, le) == MemBytes16(htons(val.lo, le), le)

putShort(val, le) == MemBytes16(htons(val.lo, le), le)

(***************************************************************************)
(* convert_num (parse.c 538-647).                                          *)
(***************************************************************************)
CharAt(str, i) == IF i >= 1 /\ i <= Len(str) THEN str[i] ELSE 0

IsAsciiDigit(c) == c >= Ch0 /\ c <= Ch0 + 9

\* InferBase that takes every token of unspecified base for decimal
InferBase_decimal(str, p, base) ==
    [base |-> IF base # 0 THEN base ELSE 10, p |-> p]

\* the base and the first digit position after the optional sign (548-568)
InferBase(str, p, base) ==
    IF base # 0 THEN [base |-> base, p |-> p]
    ELSE IF CharAt(str, p) = Ch0
         THEN IF CharAt(str, p + 1) = ChLowerX THEN [base |-> 16, p |-> p + 2]
              ELSE IF IsAsciiDigit(CharAt(str, p + 1)) THEN [base |-> 8, p |-> p + 1]
              ELSE [base |-> 10, p |-> p]
         ELSE [base |-> 10, p |-> p]

\* the value of one character (571-580); -1 stands for "Bogus number"
DigitValue(c) ==
    IF c >= ChLowerA THEN c - ChLowerA + 10
    ELSE IF c >= ChUpperA THEN c - ChUpperA + 10
    ELSE IF c >= Ch0 THEN c - Ch0
    ELSE -1

\* the do-while loop over the digits (570-586)
RECURSIVE DigitLoop(_, _, _, _)
DigitLoop(str, p, base, val) ==
    LET tval == DigitValue(CharAt(str, p))
    IN  IF tval < 0 THEN [err |-> "bogus number", val |-> val]
        ELSE IF tval >= base THEN [err |-> "digit not in base", val |-> val]
        ELSE LET v2 == MulAdd32(val, base, tval)
             IN  IF CharAt(str, p + 1) = 0 THEN [err |-> "", val |-> v2]
                 ELSE DigitLoop(str, p + 1, base, v2)

\* max, as the 32-bit pattern the comparison val > max sees (588-591)
MaxFor(negative, size) ==
    IF negative THEN Shl1(size - 1)
    ELSE Add32(Shl1(size - 1), Dec32(Shl1(size - 1)))

\* val > max (592)
RangeCheck(val, negative, size) == Gt32(val, MaxFor(negative, size))

\* the bytes written for a negative number (615-630)
EncodeNegative(val, size, le) ==
    IF size = 8 THEN [err |-> "", buf |-> <<(256 - Byte0(val.lo)) % 256>>]
    ELSE IF size = 16 THEN [err |-> "", buf |-> putShort(Neg32(val), le)]
    ELSE IF size = 32 THEN [err |-> "", buf |-> putLong(Neg32(val), le)]
    ELSE [err |-> "unexpected integer size", buf |-> <<>>]

\* the bytes written for a non-negative number (631-646)
EncodePositive(val, size, le) ==
    IF size = 8 THEN [err |-> "", buf |-> <<Byte0(val.lo)>>]
    ELSE IF size = 16 THEN [err |-> "", buf |-> putUShort(U32(0, val.lo), le)]
    ELSE IF size = 32 THEN [err |-> "", buf |-> putULong(val, le)]
    ELSE [err |-> "unexpected integer size", buf |-> <<>>]

NumResult(st, err, buf, base) == [st |-> st, err |-> err, buf |-> buf, base |-> base]

convert_num(str, base, size, le) ==
    LET negative == CharAt(str, 1) = ChMinus
        ib == InferBase(str, IF negative THEN 2 ELSE 1, base)
        dl == DigitLoop(str, ib.p, ib.base, U32Zero)
        enc == IF negative THEN EncodeNegative(dl.val, size, le)
               ELSE EncodePositive(dl.val, size, le)
    IN  IF dl.err # "" THEN NumResult("fatal", dl.err, <<>>, ib.base)
        ELSE IF RangeCheck(dl.val, negative, size)
             THEN NumResult("fatal", "exceeds max for precision", <<>>, ib.base)
        ELSE IF enc.err # "" THEN NumResult("fatal", enc.err, <<>>, ib.base)
        ELSE NumResult("ok", "", enc.buf, ib.base)

(***************************************************************************)
(* The numeric tokens the codec is driven with: an optional '-', an        *)
(* optional "0x", then digits, rendered in lower or upper case.            *)
(***************************************************************************)
DigitVals == {0, 1, 7, 8, 15}

LongDigitSeqs ==
    { <<2, 5, 5>>, <<2, 5, 6>>, <<1, 2, 8>>, <<1, 2, 9>>, <<15, 15>>,
      <<6, 5, 5, 3, 5>>, <<6, 5, 5, 3, 6>>, <<3, 2, 7, 6, 8>>, <<3, 2, 7, 6, 9>>,
      <<15, 15, 15, 15>>, <<1, 0, 0, 0, 0>>,
      <<4, 2, 9, 4, 9, 6, 7, 2, 9, 5>>, <<4, 2, 9, 4, 9, 6, 7, 2, 9, 6>>,
      <<4, 2, 9, 4, 9, 6, 7, 2, 9, 7>>, <<4, 2, 9, 4, 9, 6, 7, 5, 5, 1>>,
      <<2, 1, 4, 7, 4, 8, 3, 6, 4, 8>>, <<2, 1, 4, 7, 4, 8, 3, 6, 4, 9>>,
      <<15, 15, 15, 15, 15, 15, 15, 15>>, <<8, 0, 0, 0, 0, 0, 0, 0>>,
      <<1, 0, 0, 0, 0, 0, 0, 0, 0>>, <<1, 0, 0, 0, 0, 0, 0, 15, 15>>,
      <<4, 0, 0, 0, 0, 0, 0, 0, 0, 0, 0>>, <<3, 7, 7, 7, 7, 7, 7, 7, 7, 7, 7>> }

DigitSeqs == (UNION {[1..k -> DigitVals] : k \in 1..MaxDigits}) \cup LongDigitSeqs

DigitChar(d, upper) ==
    IF d < 10 THEN Ch0 + d
    ELSE (IF upper THEN ChUpperA ELSE ChLowerA) + (d - 10)

Render(ds, upper) == [i \in 1..Len(ds) |-> DigitChar(ds[i], upper)]

NumStrings ==
    { sign \o prefix \o Render(ds, upper) :
        sign \in {<<>>, <<ChMinus>>}, prefix \in {<<>>, <<Ch0, ChLowerX>>},
        ds \in DigitSeqs, upper \in BOOLEAN }

Bases == {0, 8, 10, 16}

Sizes == {8, 16, 32}

NoNumResult == NumResult("none", "", <<>>, 0)

NumIdle == [str |-> <<>>, base |-> 0, size |-> 8, le |-> FALSE, done |-> TRUE,
            res |-> NoNumResult]

ParseIdle == [toks |-> <<>>, pos |-> 1]

OutIdle == [called |-> "none"]

DeclIdle == [stack |-> <<>>]

(***************************************************************************)
(* The numeric codec as a state machine: a call of convert_num on a token. *)
(***************************************************************************)
InitNum ==
    /\ num \in [str : NumStrings, base : Bases, size : Sizes, le : BOOLEAN,
                done : {FALSE}, res : {NoNumResult}]
    /\ cfile = ParseIdle
    /\ out = OutIdle
    /\ decl = DeclIdle

ConvertNum ==
    /\ ~num.done
    /\ num' = [num EXCEPT !.done = TRUE,
                          !.res = convert_num(num.str, num.base, num.size, num.le)]
    /\ UNCHANGED <<cfile, out, decl>>

NextNum == ConvertNum

SpecNum == InitNum /\ [][NextNum]_vars

(***************************************************************************)
(* What a numeric token denotes, independently of convert_num: its sign,   *)
(* its base, its digits and its magnitude as an unbounded number, kept as  *)
(* four 16-bit limbs, least significant first.                             *)
(***************************************************************************)
StdDigit(c) ==
    IF c >= Ch0 /\ c <= Ch0 + 9 THEN c - Ch0
    ELSE IF c >= ChLowerA /\ c <= ChLowerA + 5 THEN c - ChLowerA + 10
    ELSE IF c >= ChUpperA /\ c <= ChUpperA + 5 THEN c - ChUpperA + 10
    ELSE -1

TokenNegative(str) == Len(str) >= 1 /\ str[1] = ChMinus

TokenUnsigned(str) == IF TokenNegative(str) THEN Tail(str) ELSE str

TokenBase(str, base) ==
    LET u == TokenUnsigned(str)
    IN  IF base # 0 THEN base
        ELSE IF Len(u) >= 2 /\ u[1] = Ch0 /\ u[2] = ChLowerX THEN 16
        ELSE IF Len(u) >= 2 /\ u[1] = Ch0 /\ StdDigit(u[2]) \in 0..9 THEN 8
        ELSE 10

TokenDigits(str, base) ==
    LET u == TokenUnsigned(str)
    IN  IF base # 0 THEN u
        ELSE IF TokenBase(str, base) = 16 THEN SubSeq(u, 3, Len(u))
        ELSE IF TokenBase(str, base) = 8 THEN Tail(u)
        ELSE u

IsNumericToken(str, base) ==
    LET ds == TokenDigits(str, base)
    IN  /\ Len(ds) >= 1
        /\ \A i \in 1..Len(ds) : StdDigit(ds[i]) \in 0..(TokenBase(str, base) - 1)

WideMulAdd(n, b, d) ==
    LET l1 == n[1] * b + d
        l2 == n[2] * b + (l1 \div Half)
        l3 == n[3] * b + (l2 \div Half)
        l4 == n[4] * b + (l3 \div Half)
    IN  <<l1 % Half, l2 % Half, l3 % Half, l4>>

RECURSIVE WideValue(_, _, _, _)
WideValue(ds, i, b, acc) ==
    IF i > Len(ds) THEN acc
    ELSE WideValue(ds, i + 1, b, WideMulAdd(acc, b, StdDigit(ds[i])))

Magnitude(str, base) ==
    WideValue(TokenDigits(str, base), 1, TokenBase(str, base), <<0, 0, 0, 0>>)

WideGt(a, b) ==
    \E i \in 1..4 : a[i] > b[i] /\ \A j \in (i + 1)..4 : a[j] = b[j]

\* 2^(size-1) for a negative token, 2^size - 1 for a non-negative one
WidthBound(negative, size) ==
    IF negative
    THEN (IF size = 8 THEN <<128, 0, 0, 0>>
          ELSE IF size = 16 THEN <<32768, 0, 0, 0>> ELSE <<0, 32768, 0, 0>>)
    ELSE (IF size = 8 THEN <<255, 0, 0, 0>>
          ELSE IF size = 16 THEN <<Half - 1, 0, 0, 0>> ELSE <<Half - 1, Half - 1, 0, 0>>)

\* the big-endian bytes of the token's value modulo 2^size, two's complement
ExpectedBytes(negative, mag, size) ==
    IF size = 8
    THEN LET x == mag[1] % 256
         IN  <<IF negative THEN (256 - x) % 256 ELSE x>>
    ELSE IF size = 16
    THEN LET v == IF negative THEN (Half - mag[1]) % Half ELSE mag[1]
         IN  <<v \div 256, v % 256>>
    ELSE LET lo == IF ~negative THEN mag[1] ELSE (Half - mag[1]) % Half
             hi == IF ~negative THEN mag[2]
                   ELSE IF mag[1] = 0 THEN (Half - mag[2]) % Half
                   ELSE (Half - 1) - mag[2]
         IN  <<hi \div 256, hi % 256, lo \div 256, lo % 256>>

\* the number a big-endian buffer of size/8 bytes holds
DecodeBigEndian(buf, size) ==
    IF size = 8 THEN U32(0, buf[1])
    ELSE IF size = 16 THEN U32(0, buf[1] * 256 + buf[2])
    ELSE U32(buf[1] * 256 + buf[2], buf[3] * 256 + buf[4])

Str(ds) == Render(ds, TRUE)

(***************************************************************************)
(* C5.  Every numeric token whose magnitude exceeds 2^(width-1) (negative) *)
(* or 2^width - 1 (non-negative) makes convert_num fail with the overflow  *)
(* error, tokens of magnitude 2^32 or more included.                       *)
(***************************************************************************)
C5_OverflowAlwaysDetected ==
    (/\ num.done
     /\ num.res.st # "none"
     /\ IsNumericToken(num.str, num.base)
     /\ WideGt(Magnitude(num.str, num.base),
               WidthBound(TokenNegative(num.str), num.size)))
    => (num.res.st = "fatal" /\ num.res.err = "exceeds max for precision")

(***************************************************************************)
(* C6.  Whenever convert_num accepts a numeric token at width 8, 16 or 32  *)
(* it writes exactly width/8 bytes: the token's value modulo 2^width in    *)
(* big-endian order, negative values in two's complement, whatever the     *)
(* host byte order; "0xFF" at width 8 gives 255 and "-128" gives 0x80; and *)
(* reading the bytes back big-endian and encoding the number read at the   *)
(* same width gives the same bytes.                                        *)
(***************************************************************************)
C6_BigEndianEncoding ==
    /\ (num.done /\ num.res.st = "ok" /\ IsNumericToken(num.str, num.base))
       => /\ Len(num.res.buf) = num.size \div 8
          /\ num.res.buf = ExpectedBytes(TokenNegative(num.str),
                                         Magnitude(num.str, num.base), num.size)
          /\ EncodePositive(DecodeBigEndian(num.res.buf, num.size),
                            num.size, num.le).buf = num.res.buf
    /\ (num.done /\ num.size = 8 /\ num.base = 0
        /\ num.str = <<Ch0, ChLowerX>> \o Str(<<15, 15>>))
       => (num.res.st = "ok" /\ num.res.buf = <<255>>)
    /\ (num.done /\ num.size = 8 /\ num.base \in {0, 10}
        /\ num.str = <<ChMinus>> \o Str(<<1, 2, 8>>))
       => (num.res.st = "ok" /\ num.res.buf = <<128>>)

C6_Witness ==
    /\ num.done
    /\ num.res.st = "ok"
    /\ num.le
    /\ num.size = 16
    /\ num.str = <<ChMinus>> \o Str(<<1, 2, 8>>)
    /\ num.res.buf = <<255, 128>>

(***************************************************************************)
(* C23.  When convert_num is called with base 0 it infers the base from    *)
(* the token after an optional leading '-': a leading "0x" selects base    *)
(* 16, a leading "0" followed by a decimal digit selects base 8, anything  *)
(* else (including the single token "0") selects base 10; with a nonzero   *)
(* base no prefix is stripped.  The digits are read after the prefix:      *)
(* "0x1" is 1, "017" is 15 and "0" is 0, while "0x1" in a given base 16    *)
(* has the digit 'x'.                                                      *)
(***************************************************************************)
HexPrefixed(str) ==
    CharAt(TokenUnsigned(str), 1) = Ch0 /\ CharAt(TokenUnsigned(str), 2) = ChLowerX

OctalPrefixed(str) ==
    /\ CharAt(TokenUnsigned(str), 1) = Ch0
    /\ CharAt(TokenUnsigned(str), 2) \in Ch0..(Ch0 + 9)

C23_BaseInference ==
    num.done =>
        /\ (num.base = 0 /\ HexPrefixed(num.str)) => num.res.base = 16
        /\ (num.base = 0 /\ OctalPrefixed(num.str)) => num.res.base = 8
        /\ (num.base = 0 /\ ~HexPrefixed(num.str) /\ ~OctalPrefixed(num.str))
           => num.res.base = 10
        /\ (num.base = 0 /\ num.size = 8 /\ num.str = <<Ch0>>)
           => (num.res.st = "ok" /\ num.res.base = 10 /\ num.res.buf = <<0>>)
        /\ (num.base = 0 /\ num.size = 8 /\ num.str = <<Ch0, ChLowerX, Ch0 + 1>>)
           => (num.res.st = "ok" /\ num.res.buf = <<1>>)
        /\ (num.base = 0 /\ num.size = 8 /\ num.str = <<Ch0, Ch0 + 1, Ch0 + 7>>)
           => (num.res.st = "ok" /\ num.res.buf = <<15>>)
        /\ num.base # 0
           => /\ num.res.base = num.base
              /\ HexPrefixed(num.str)
                 => (num.res.st = "fatal" /\ num.res.err = "digit not in base")
              /\ (num.size = 8 /\ num.base = 10
                  /\ num.str = <<Ch0, Ch0 + 1, Ch0 + 7>>)
                 => (num.res.st = "ok" /\ num.res.buf = <<17>>)

C23_Witness ==
    /\ num.done
    /\ num.base = 0
    /\ num.size = 8
    /\ num.str = <<ChMinus, Ch0, Ch0 + 1, Ch0 + 7>>
    /\ num.res.base = 8
    /\ num.res.st = "ok"
    /\ num.res.buf = <<241>>

(***************************************************************************)
(* Elements: the nodes of the output tree.  One record shape serves every  *)
(* type: ival is the value of an integer, sval of a string given as text,  *)
(* data of a string built from character codes, keys/vals the entries of a *)
(* map in insertion order, vals alone the items of a list.                 *)
(***************************************************************************)
Element(type) ==
    [type |-> type, skip |-> FALSE, comments |-> <<>>, ival |-> 0, sval |-> "",
     data |-> <<>>, keys |-> <<>>, vals |-> <<>>]

createMap == Element("map")

createList == Element("list")

createNull == Element("null")

createInt(i) == [Element("integer") EXCEPT !.ival = i]

createString(s) == [Element("string") EXCEPT !.sval = s]

createData(d) == [Element("string") EXCEPT !.data = d]

Skipped(e) == [e EXCEPT !.skip = TRUE]

Commented(e, c) == [e EXCEPT !.comments = Append(@, c)]

mapContains(m, k) == m.type = "map" /\ \E i \in 1..Len(m.keys) : m.keys[i] = k

mapSet(m, e, k) == [m EXCEPT !.keys = Append(@, k), !.vals = Append(@, e)]

mapGet(m, k) == m.vals[CHOOSE i \in 1..Len(m.keys) : m.keys[i] = k]

listPush(l, e) == [l EXCEPT !.vals = Append(@, e)]

(***************************************************************************)
(* The expression context classifier (parse.c 4393-4459, 4649-4659).       *)
(***************************************************************************)
BooleanKeys ==
    {"check", "exists", "variable-exists", "equal", "not-equal", "regex-match",
     "iregex-match", "and", "or", "not", "known", "static"}

DataKeys ==
    {"substring", "suffix", "lowercase", "uppercase", "option", "hardware",
     "packet", "concat", "encapsulate", "encode-int8", "encode-int16",
     "encode-int32", "gethostbyname", "binary-to-ascii", "filename",
     "server-name", "reverse", "pick-first-value", "host-decl-name",
     "leased-address", "config-option", "null", "gethostname", "v6relay"}

NumericKeys ==
    {"extract-int8", "extract-int16", "extract-int32", "lease-time", "add",
     "subtract", "multiply", "divide", "remainder", "binary-and", "binary-or",
     "binary-xor", "client-state"}

is_boolean_expression_literal_only(expr) == expr.type = "boolean"

is_boolean_expression(expr) ==
    expr.type = "boolean" \/ \E k \in BooleanKeys : mapContains(expr, k)

is_data_expression(expr) ==
    \/ expr.type = "integer"
    \/ expr.type = "string"
    \/ \E k \in DataKeys : mapContains(expr, k)

is_numeric_expression(expr) ==
    expr.type = "integer" \/ \E k \in NumericKeys : mapContains(expr, k)

expression_context(expr) ==
    IF is_data_expression(expr) THEN "context_data"
    ELSE IF is_numeric_expression(expr) THEN "context_numeric"
    ELSE IF is_boolean_expression(expr) THEN "context_boolean"
    ELSE "context_any"

(***************************************************************************)
(* The classifier as a state machine: a call of expression_context on a    *)
(* node of one of the shapes the expression parser builds: an integer, a   *)
(* string, or a map with one key.                                          *)
(***************************************************************************)
OtherKeys == {"variable-reference", "funcall", "left", "name"}

ClassifyChildren == {createNull, createMap, createString("x"), createInt(5)}

ClassifyNodes ==
    {createInt(i) : i \in {0, 5}} \cup {createString(t) : t \in {"", "x"}}
    \cup {createData(<<Ch0, Ch0 + 2>>)}
    \cup { mapSet(createMap, IF sk THEN Skipped(ch) ELSE ch, k) :
             k \in BooleanKeys \cup DataKeys \cup NumericKeys \cup OtherKeys,
             ch \in ClassifyChildren, sk \in BOOLEAN }

InitClassify ==
    /\ num = NumIdle
    /\ cfile = ParseIdle
    /\ out \in [called : {"none"}, node : ClassifyNodes, context : {"none"}]
    /\ decl = DeclIdle

Classify ==
    /\ out.called = "none"
    /\ out' = [out EXCEPT !.called = "expression_context",
                          !.context = expression_context(out.node)]
    /\ UNCHANGED <<num, cfile, decl>>

NextClassify == Classify

SpecClassify == InitClassify /\ [][NextClassify]_vars

(***************************************************************************)
(* C2.  expression_context returns Numeric for an Integer literal node,    *)
(* Data for a String literal node, Boolean for a Map keyed "and", Data for *)
(* a Map keyed "concat", and Any for a Map whose key is in none of the     *)
(* boolean/data/numeric key sets.                                          *)
(***************************************************************************)
C2_ClassifierTable ==
    out.called = "expression_context" =>
        /\ out.node.type = "integer" => out.context = "context_numeric"
        /\ out.node.type = "string" => out.context = "context_data"
        /\ mapContains(out.node, "and") => out.context = "context_boolean"
        /\ mapContains(out.node, "concat") => out.context = "context_data"
        /\ (/\ out.node.type = "map"
            /\ \A k \in BooleanKeys \cup DataKeys \cup NumericKeys :
                  ~mapContains(out.node, k))
           => out.context = "context_any"

(***************************************************************************)
(* The token stream.  A token is its kind t (the name of the dhcp_token),  *)
(* its text val for names and quoted strings, and its text txt as          *)
(* character codes for numbers.  cfile is the parse state: the tokens, the *)
(* position of the next token and the issue counter.  Reading at the end   *)
(* of the tokens gives END_OF_FILE and stays there.                        *)
(***************************************************************************)
Token(t, val, txt) == [t |-> t, val |-> val, txt |-> txt]

Tok(t) == Token(t, "", <<>>)

peek_token(c) == IF c.pos <= Len(c.toks) THEN c.toks[c.pos] ELSE Tok("END_OF_FILE")

skip_token(c) == IF c.pos <= Len(c.toks) THEN [c EXCEPT !.pos = @ + 1] ELSE c

Issue(c) == [c EXCEPT !.issue_counter = @ + 1]

(***************************************************************************)
(* Results of the parsing functions: st as described above, c the parse    *)
(* state on return, node the element built, lose the value of *lose on     *)
(* return, err the message of parse_error.  Where a function goes on with  *)
(* the result of a call it made, the steps that follow the call are local  *)
(* operators of its definition, applied to that result.                    *)
(***************************************************************************)
Ok(c, node, lose) == [st |-> "ok", c |-> c, node |-> node, lose |-> lose, err |-> ""]

No(c, lose) == [st |-> "false", c |-> c, node |-> createNull, lose |-> lose, err |-> ""]

Fatal(c, msg) == [st |-> "fatal", c |-> c, node |-> createNull, lose |-> FALSE, err |-> msg]

(***************************************************************************)
(* skip_to_rbrace and skip_to_semi (parse.c 69-124).                       *)
(***************************************************************************)
RECURSIVE skip_to_rbrace(_, _)
skip_to_rbrace(c, brace_count) ==
    LET token == peek_token(c).t
        count == IF token = "RBRACE" /\ brace_count > 0 THEN brace_count - 1
                 ELSE IF token = "LBRACE" THEN brace_count + 1
                 ELSE brace_count
    IN  IF token = "RBRACE" /\ count = 0 THEN skip_token(c)
        ELSE IF token = "SEMI" /\ brace_count = 0 THEN skip_token(c)
        ELSE IF token = "EOL" THEN skip_token(c)
        ELSE IF token = "END_OF_FILE" THEN c
        ELSE skip_to_rbrace(skip_token(c), count)

skip_to_semi(c) == skip_to_rbrace(c, 0)

\* parse_semi, followed by the caller's return of node (parse.c 126-135)
parse_semi(c, node, lose) ==
    IF peek_token(c).t # "SEMI" THEN Fatal(skip_token(c), "semicolon expected.")
    ELSE Ok(skip_token(c), node, lose)

(***************************************************************************)
(* parse_cshl (parse.c 1271-1301): a colon separated list of hexadecimal   *)
(* bytes, rendered with "%02hhx" and joined by ':'.                        *)
(***************************************************************************)
ChColon == 58

Hex2(b) == <<DigitChar(b \div 16, FALSE), DigitChar(b % 16, FALSE)>>

RECURSIVE CshlLoop(_, _, _)
CshlLoop(c, data, first) ==
    LET token == peek_token(c)
        c1 == skip_token(c)
        Byte(n, d) ==
            IF n.st = "fatal" THEN Fatal(c1, n.err)
            ELSE IF peek_token(c1).t = "COLON"
            THEN CshlLoop(skip_token(c1), d \o Hex2(n.buf[1]), FALSE)
            ELSE Ok(c1, createData(d \o Hex2(n.buf[1])), FALSE)
    IN  IF token.t \notin {"NUMBER", "NUMBER_OR_NAME"}
        THEN Fatal(c1, "expecting hexadecimal number.")
        ELSE Byte(convert_num(token.txt, 16, 8, FALSE),
                  data \o (IF first THEN <<>> ELSE <<ChColon>>))

parse_cshl(c) == CshlLoop(c, <<>>, TRUE)

RECURSIVE AtoiLoop(_, _, _)
AtoiLoop(str, p, acc) ==
    IF IsAsciiDigit(CharAt(str, p))
    THEN AtoiLoop(str, p + 1, acc * 10 + (CharAt(str, p) - Ch0))
    ELSE acc

atoi(str) ==
    IF CharAt(str, 1) = ChMinus THEN 0 - AtoiLoop(str, 2, 0) ELSE AtoiLoop(str, 1, 0)

(***************************************************************************)
(* parse_numeric_aggregate (parse.c 476-536): numbers joined by the token  *)
(* separator.  buf tells whether the caller passed a buffer, max is *max   *)
(* on entry; the result holds the bytes of the string returned and *max on *)
(* return.  count and r are the numbers read and the bytes stored so far.  *)
(***************************************************************************)
AggregateResult(st, c, r, max, err) ==
    [st |-> st, c |-> c, r |-> r, max |-> max, err |-> err]

RECURSIVE AggregateLoop(_, _, _, _, _, _, _)
AggregateLoop(c, count, r, max, separator, base, size) ==
    LET token == peek_token(c).t
        Number(n, c2) ==
            IF n.st = "fatal" THEN AggregateResult("fatal", c2, <<>>, max, n.err)
            ELSE IF count + 1 # max
            THEN AggregateLoop(c2, count + 1, r \o n.buf, max, separator, base, size)
            ELSE AggregateResult("ok", c2, r \o n.buf, count + 1, "")
        Next(c1) ==
            IF peek_token(c1).t = "END_OF_FILE"
            THEN AggregateResult("fatal", skip_token(c1), <<>>, max,
                                 "unexpected end of file")
            ELSE IF /\ peek_token(c1).t # "NUMBER"
                    /\ (base # 16 \/ peek_token(c1).t # "NUMBER_OR_NAME")
            THEN AggregateResult("fatal", skip_token(c1), <<>>, max,
                                 "expecting numeric value.")
            ELSE Number(convert_num(peek_token(c1).txt, base, size, c1.little_endian),
                        skip_token(c1))
    IN  IF count # 0 /\ token # separator
        THEN IF max = 0 THEN AggregateResult("ok", c, r, count, "")
             ELSE AggregateResult("fatal",
                                  IF token \notin {"RBRACE", "LBRACE"}
                                  THEN skip_token(c) ELSE c,
                                  <<>>, max, "too few numbers.")
        ELSE Next(IF count # 0 THEN skip_token(c) ELSE c)

\* parse_numeric_aggregate that reads on as if *max were zero
parse_numeric_aggregate_unlimited(c, buf, max, separator, base, size) ==
    AggregateLoop(c, 0, <<>>, 0, separator, base, size)

parse_numeric_aggregate(c, buf, max, separator, base, size) ==
    AggregateLoop(c, 0, <<>>, max, separator, base, size)

(***************************************************************************)
(* Operators: precedence values and contexts (parse.c 4481-4647).          *)
(***************************************************************************)
BinaryOps ==
    [EQUAL |-> "expr_equal", AND |-> "expr_and", OR |-> "expr_or",
     PLUS |-> "expr_add", MINUS |-> "expr_subtract", SLASH |-> "expr_divide",
     ASTERISK |-> "expr_multiply", PERCENT |-> "expr_remainder",
     AMPERSAND |-> "expr_binary_and", PIPE |-> "expr_binary_or",
     CARET |-> "expr_binary_xor"]

BinopName ==
    [expr_none |-> "none", expr_equal |-> "equal", expr_not_equal |-> "not-equal",
     expr_regex_match |-> "regex-match", expr_iregex_match |-> "iregex-match",
     expr_and |-> "and", expr_or |-> "or", expr_add |-> "add",
     expr_subtract |-> "subtract", expr_divide |-> "divide",
     expr_multiply |-> "multiply", expr_remainder |-> "remainder",
     expr_binary_and |-> "binary-and", expr_binary_or |-> "binary-or",
     expr_binary_xor |-> "binary-xor"]

EqualityOps == {"expr_equal", "expr_not_equal"}

BooleanOps == {"expr_and", "expr_or"}

NumericOps ==
    {"expr_add", "expr_subtract", "expr_divide", "expr_multiply", "expr_remainder",
     "expr_binary_and", "expr_binary_or", "expr_binary_xor"}

op_val(op) ==
    IF op \in {"expr_equal", "expr_not_equal", "expr_regex_match", "expr_iregex_match"}
    THEN 4
    ELSE IF op \in BooleanOps THEN 3
    ELSE IF op \in {"expr_add", "expr_subtract"} THEN 2
    ELSE IF op \in {"expr_multiply", "expr_divide", "expr_remainder"} THEN 1
    ELSE 100

op_precedence(op1, op2) == op_val(op1) - op_val(op2)

op_context(op) ==
    IF op \in {"expr_equal", "expr_not_equal", "expr_regex_match", "expr_iregex_match"}
    THEN "context_data"
    ELSE IF op \in BooleanOps THEN "context_boolean"
    ELSE IF op \in NumericOps THEN "context_numeric"
    ELSE "context_any"

\* the operator that follows an operand (parse.c 3342-3422); BANG and TILDE
\* are consumed, the last token of the operator is only peeked
NextOp(c) ==
    LET token == peek_token(c).t
        c1 == skip_token(c)
        second == peek_token(c1).t
    IN  IF token = "BANG"
        THEN IF second # "EQUAL"
             THEN [st |-> "fatal", op |-> "expr_none", c |-> c1,
                   err |-> "! in boolean context without ="]
             ELSE [st |-> "ok", op |-> "expr_not_equal", c |-> c1, err |-> ""]
        ELSE IF token = "TILDE"
        THEN IF second = "TILDE"
             THEN [st |-> "ok", op |-> "expr_iregex_match", c |-> c1, err |-> ""]
             ELSE IF second = "EQUAL"
             THEN [st |-> "ok", op |-> "expr_regex_match", c |-> c1, err |-> ""]
             ELSE [st |-> "fatal", op |-> "expr_none", c |-> c1,
                   err |-> "expecting ~= or ~~ operator"]
        ELSE IF token \in DOMAIN BinaryOps
        THEN [st |-> "ok", op |-> BinaryOps[token], c |-> c, err |-> ""]
        ELSE [st |-> "ok", op |-> "expr_none", c |-> c, err |-> ""]

\* the operand checks of a binary combination (parse.c 3468-3550): the
\* message of the parse_error raised, or "" when the operands are accepted
OperandCheck(binop, lhs, rhs) ==
    LET rhs_context == expression_context(rhs)
        lhs_context == expression_context(lhs)
    IN  IF /\ rhs_context # "context_any"
           /\ lhs_context # "context_any"
           /\ rhs_context # lhs_context
        THEN "illegal expression relating different types"
        ELSE IF binop \in EqualityOps
        THEN IF rhs_context \notin {"context_data_or_numeric", "context_data",
                                    "context_numeric", "context_any"}
             THEN "expecting data/numeric expression"
             ELSE ""
        ELSE IF binop = "expr_regex_match"
        THEN IF expression_context(rhs) # "context_data"
             THEN "expecting data expression"
             ELSE ""
        ELSE IF binop \in BooleanOps
        THEN IF rhs_context \notin {"context_boolean", "context_any"}
             THEN "expecting boolean expressions"
             ELSE ""
        ELSE IF binop \in NumericOps
        THEN IF rhs_context \notin {"context_numeric", "context_any"}
             THEN "expecting numeric expressions"
             ELSE ""
        ELSE ""

\* the binary node (parse.c 3555-3581)
Combine(binop, lhs, rhs) ==
    mapSet(createMap,
           mapSet(mapSet(Skipped(createMap), lhs, "left"), rhs, "right"),
           BinopName[binop])

(***************************************************************************)
(* Options.  The option tables live outside parse.c; the model has two     *)
(* spaces and a few options.  An unknown-<code> name is given with the     *)
(* code that atoi reads after its prefix.                                  *)
(***************************************************************************)
Option(space, name, code, format, status) ==
    [space |-> space, name |-> name, code |-> code, format |-> format,
     status |-> status]

Options ==
    {Option("dhcp", "host-name", 12, "t", "known"),
     Option("dhcp", "pad-option", 200, "X", "kea_unknown"),
     Option("server", "default-lease-time", 1, "T", "special"),
     Option("server", "max-lease-time", 2, "T", "known"),
     Option("server", "authoritative", 18, "f", "special")}

Spaces == {"dhcp", "server", "agent"}

UnknownCodes ==
    ("unknown-0" :> 0) @@ ("unknown-200" :> 200) @@ ("unknown-224" :> 224)
    @@ ("unknown-0224" :> 224) @@ ("unknown-255" :> 255)

Punctuation ==
    {"SEMI", "LBRACE", "RBRACE", "LPAREN", "RPAREN", "COMMA", "COLON", "DOT",
     "EQUAL", "BANG", "TILDE", "PLUS", "MINUS", "SLASH", "ASTERISK", "PERCENT",
     "AMPERSAND", "PIPE", "CARET"}

is_identifier(t) == t \notin Punctuation \cup {"STRING", "NUMBER", "END_OF_FILE"}

option_lookup_name(c, space, name) ==
    {o \in c.options : o.space = space /\ o.name = name}

option_lookup_code(c, space, code) ==
    {o \in c.options : o.space = space /\ o.code = code}

OptionResult(st, c, option, err) == [st |-> st, c |-> c, option |-> option, err |-> err]

\* parse_option_name without the lookup by code before an unknown-<code>
\* option is manufactured
parse_option_name_refabricating(c, allocate) ==
    LET first == peek_token(c)
        c1 == skip_token(c)
        dotted == peek_token(c1).t = "DOT"
        second == peek_token(skip_token(c1))
        c2 == IF dotted THEN skip_token(skip_token(c1)) ELSE c1
        space == IF dotted THEN first.val ELSE "dhcp"
        name == IF dotted THEN second.val ELSE first.val
        none == Option("", "", 0, "", "")
        byname == option_lookup_name(c, space, name)
        code == UnknownCodes[name]
        bycode == option_lookup_code(c, space, code)
        unknown == Option(space, name, code, "X", "")
        fresh == Option(space, name, 0, "", "")
    IN  IF ~is_identifier(first.t)
        THEN OptionResult("fatal", c1, none,
                          "expecting identifier after option keyword.")
        ELSE IF dotted /\ ~is_identifier(second.t)
        THEN OptionResult("fatal", c2, none, "expecting identifier after '.'")
        ELSE IF space \notin Spaces
        THEN OptionResult("fatal", c2, none, "no option space named")
        ELSE IF byname # {}
        THEN OptionResult("ok", c2, CHOOSE o \in byname : TRUE, "")
        ELSE IF space = "server"
        THEN OptionResult("fatal", c2, none, "unknown server option")
        ELSE IF name \in DOMAIN UnknownCodes
        THEN IF code = 0
             THEN OptionResult("fatal", c2, none, "Option code 0 is illegal")
             ELSE IF c.local_family = "AF_INET" /\ code = 255
             THEN OptionResult("fatal", c2, none, "Option code 255 is illegal")
             ELSE OptionResult("ok", [c2 EXCEPT !.options = @ \cup {unknown}],
                               unknown, "")
        ELSE IF allocate
        THEN OptionResult("ok", [c2 EXCEPT !.options = @ \cup {fresh}], fresh, "")
        ELSE OptionResult("fatal", c2, none, "no option named")

\* parse.c 654-771
parse_option_name(c, allocate) ==
    LET first == peek_token(c)
        c1 == skip_token(c)
        dotted == peek_token(c1).t = "DOT"
        second == peek_token(skip_token(c1))
        c2 == IF dotted THEN skip_token(skip_token(c1)) ELSE c1
        space == IF dotted THEN first.val ELSE "dhcp"
        name == IF dotted THEN second.val ELSE first.val
        none == Option("", "", 0, "", "")
        byname == option_lookup_name(c, space, name)
        code == UnknownCodes[name]
        bycode == option_lookup_code(c, space, code)
        unknown == Option(space, name, code, "X", "")
        fresh == Option(space, name, 0, "", "")
    IN  IF ~is_identifier(first.t)
        THEN OptionResult("fatal", c1, none,
                          "expecting identifier after option keyword.")
        ELSE IF dotted /\ ~is_identifier(second.t)
        THEN OptionResult("fatal", c2, none, "expecting identifier after '.'")
        ELSE IF space \notin Spaces
        THEN OptionResult("fatal", c2, none, "no option space named")
        ELSE IF byname # {}
        THEN OptionResult("ok", c2, CHOOSE o \in byname : TRUE, "")
        ELSE IF space = "server"
        THEN OptionResult("fatal", c2, none, "unknown server option")
        ELSE IF name \in DOMAIN UnknownCodes
        THEN IF code = 0
             THEN OptionResult("fatal", c2, none, "Option code 0 is illegal")
             ELSE IF c.local_family = "AF_INET" /\ code = 255
             THEN OptionResult("fatal", c2, none, "Option code 255 is illegal")
             ELSE IF bycode = {}
             THEN OptionResult("ok", [c2 EXCEPT !.options = @ \cup {unknown}],
                               unknown, "")
             ELSE OptionResult("ok",
                               [c2 EXCEPT !.comments =
                                   Append(@, "/// option " \o space \o "." \o name
                                             \o " redefinition")],
                               CHOOSE o \in bycode : TRUE, "")
        ELSE IF allocate
        THEN OptionResult("ok", [c2 EXCEPT !.options = @ \cup {fresh}], fresh, "")
        ELSE OptionResult("fatal", c2, none, "no option named")

(***************************************************************************)
(* parse_non_binary (parse.c 2389-3307) and parse_expression (3311-3586).  *)
(* lose is the value of *lose on entry.  lhs is <<>> for a NULL left-hand  *)
(* side and <<node>> otherwise; the jump back to new_rhs is the tail call. *)
(* The cases modelled are the unary not, the parenthesis, check, defined,  *)
(* exists, the leaf keywords, concat, pick-first-value, option and          *)
(* config-option, string and number literals, variable references and      *)
(* function calls; every other token kind the model uses takes the default *)
(* case.                                                                   *)
(***************************************************************************)
LeafKey ==
    [STATIC |-> "static", KNOWN |-> "known", HARDWARE |-> "hardware",
     LEASED_ADDRESS |-> "leased-address", CLIENT_STATE |-> "client-state",
     FILENAME |-> "filename", SERVER_NAME |-> "server-name",
     LEASE_TIME |-> "lease-time", TOKEN_NULL |-> "null",
     HOST_DECL_NAME |-> "host-decl-name"]

RECURSIVE parse_non_binary(_, _, _)
RECURSIVE parse_expression(_, _, _, _, _)
RECURSIVE FuncallArguments(_, _, _)
RECURSIVE parse_data_expression(_, _)
RECURSIVE ConcatAnother(_, _, _)
RECURSIVE PickArguments(_, _, _)

\* the argument list of a function call (parse.c 3286-3303)
FuncallArguments(c, lose, chain) ==
    LET Argument(arg) ==
            IF arg.st = "fatal" THEN arg
            ELSE IF arg.st = "false"
            THEN IF ~arg.lose THEN Fatal(arg.c, "expecting expression.")
                 ELSE No(skip_to_semi(arg.c), arg.lose)
            ELSE IF peek_token(arg.c).t = "COMMA"
            THEN FuncallArguments(skip_token(arg.c), arg.lose,
                                  listPush(chain, arg.node))
            ELSE IF peek_token(arg.c).t # "RPAREN"
            THEN Fatal(skip_token(arg.c), "Right parenthesis expected.")
            ELSE Ok(skip_token(arg.c), listPush(chain, arg.node), arg.lose)
    IN  Argument(parse_expression(c, lose, "context_any", <<>>, "expr_none"))

\* the arguments of concat from concat_another on (parse.c 2640-2656): the
\* node that holds left and the rest of the arguments
ConcatAnother(c, lose, left) ==
    LET Chain(rest) ==
            IF rest.st # "ok" THEN rest
            ELSE Ok(rest.c,
                    mapSet(mapSet(createMap, left, "left"),
                           mapSet(createMap, rest.node, "concat"), "right"),
                    rest.lose)
        Argument(arg) ==
            IF arg.st = "fatal" THEN arg
            ELSE IF arg.st = "false"
            THEN IF ~arg.lose THEN Fatal(arg.c, "expecting data expression.")
                 ELSE No(arg.c, TRUE)
            ELSE IF peek_token(arg.c).t = "COMMA"
            THEN Chain(ConcatAnother(skip_token(arg.c), arg.lose, arg.node))
            ELSE IF peek_token(arg.c).t # "RPAREN"
            THEN Fatal(skip_token(arg.c), "right parenthesis expected.")
            ELSE Ok(skip_token(arg.c),
                    mapSet(mapSet(createMap, left, "left"), arg.node, "right"),
                    arg.lose)
    IN  Argument(parse_data_expression(c, lose))

\* the arguments of pick-first-value (parse.c 2750-2759)
PickArguments(c, lose, list) ==
    LET Argument(arg) ==
            IF arg.st = "fatal" THEN arg
            ELSE IF arg.st = "false"
            THEN IF ~arg.lose THEN Fatal(arg.c, "expecting data expression.")
                 ELSE No(arg.c, TRUE)
            ELSE IF peek_token(arg.c).t = "COMMA"
            THEN PickArguments(skip_token(arg.c), arg.lose, listPush(list, arg.node))
            ELSE IF peek_token(arg.c).t # "RPAREN"
            THEN Fatal(skip_token(arg.c), "right parenthesis expected.")
            ELSE Ok(skip_token(arg.c), listPush(list, arg.node), arg.lose)
    IN  Argument(parse_data_expression(c, lose))

\* parse_non_binary that reads the token it cannot use
parse_non_binary_consuming(c, lose, context) == No(skip_token(c), lose)

parse_non_binary(c, lose, context) ==
    LET token == peek_token(c)
        c1 == skip_token(c)
        second == peek_token(c1)
        c2 == skip_token(c1)
        third == peek_token(c2)
        c3 == skip_token(c2)
        Not(notx) ==
            IF notx.st = "fatal" THEN notx
            ELSE IF notx.st = "false"
            THEN IF ~notx.lose THEN Fatal(notx.c, "expression expected")
                 ELSE No(notx.c, TRUE)
            ELSE IF ~is_boolean_expression(notx.node)
            THEN Fatal(notx.c, "boolean expression expected")
            ELSE Ok(IF notx.node.skip THEN notx.c ELSE Issue(notx.c),
                    mapSet(createMap, Skipped(notx.node), "not"), notx.lose)
        Paren(paren) ==
            IF paren.st = "fatal" THEN paren
            ELSE IF paren.st = "false"
            THEN IF ~paren.lose THEN Fatal(paren.c, "expression expected")
                 ELSE No(paren.c, TRUE)
            ELSE IF peek_token(paren.c).t # "RPAREN"
            THEN Fatal(skip_token(paren.c), "right paren expected")
            ELSE Ok(skip_token(paren.c), paren.node, paren.lose)
        Cshl(cshl) == IF cshl.st = "fatal" THEN cshl ELSE Ok(cshl.c, cshl.node, lose)
        \* exists, option and config-option (parse.c 2454-2473, 2763-2783)
        Named(name, key) ==
            IF name.st = "fatal" THEN Fatal(name.c, name.err)
            ELSE Ok(Issue(name.c),
                    mapSet(createMap,
                           Skipped(mapSet(mapSet(createMap,
                                                 createString(name.option.space),
                                                 "universe"),
                                          createString(name.option.name), "name")),
                           key),
                    lose)
        \* concat (parse.c 2618-2657)
        Concat(rest) ==
            IF rest.st # "ok" THEN rest
            ELSE Ok(rest.c, mapSet(createMap, Skipped(rest.node), "concat"), rest.lose)
        First(arg) ==
            IF arg.st = "fatal" THEN arg
            ELSE IF arg.st = "false"
            THEN IF ~arg.lose THEN Fatal(arg.c, "expecting data expression.")
                 ELSE No(arg.c, TRUE)
            ELSE IF peek_token(arg.c).t # "COMMA"
            THEN Fatal(skip_token(arg.c), "comma expected.")
            ELSE Concat(ConcatAnother(skip_token(arg.c), arg.lose, arg.node))
        \* pick-first-value (parse.c 2737-2761)
        Pick(list) ==
            IF list.st # "ok" THEN list
            ELSE Ok(list.c, mapSet(createMap, list.node, "pick-first-value"),
                    list.lose)
        Funcall(args) ==
            IF args.st # "ok"
            THEN [args EXCEPT !.c = IF args.st = "false" THEN Issue(@) ELSE @]
            ELSE Ok(Issue(args.c),
                    mapSet(createMap,
                           mapSet(mapSet(Skipped(createMap),
                                         createString(token.val), "name"),
                                  args.node, "arguments"),
                           "funcall"),
                    args.lose)
    IN  CASE token.t = "CHECK" ->
               IF second.t # "STRING" THEN Fatal(c2, "string expected.")
               ELSE Ok(Issue(c2),
                       mapSet(createMap, Skipped(createString(second.val)), "check"),
                       lose)
          [] token.t = "TOKEN_NOT" ->
               Not(parse_non_binary(c1, lose, "context_boolean"))
          [] token.t = "LPAREN" ->
               Paren(parse_expression(c1, lose, context, <<>>, "expr_none"))
          [] token.t \in DOMAIN LeafKey ->
               Ok(Issue(c1), mapSet(createMap, Skipped(createNull), LeafKey[token.t]),
                  lose)
          [] token.t = "EXISTS" -> Named(parse_option_name(c1, FALSE), "exists")
          [] token.t = "CONCAT" ->
               IF second.t # "LPAREN" THEN Fatal(Issue(c2), "left parenthesis expected.")
               ELSE First(parse_data_expression(Issue(c2), lose))
          [] token.t = "PICK" ->
               IF second.t # "LPAREN" THEN Fatal(Issue(c2), "left parenthesis expected.")
               ELSE Pick(PickArguments(Issue(c2), lose, Skipped(createList)))
          [] token.t = "OPTION" -> Named(parse_option_name(c1, FALSE), "option")
          [] token.t = "CONFIG_OPTION" ->
               Named(parse_option_name(c1, FALSE), "config-option")
          [] token.t = "STRING" -> Ok(c1, createString(token.val), lose)
          [] token.t = "NUMBER" /\ context \in {"context_numeric",
                                                "context_data_or_numeric"} ->
               Ok(c1, createInt(atoi(token.txt)), lose)
          [] token.t = "NUMBER" /\ context \notin {"context_numeric",
                                                   "context_data_or_numeric"} ->
               Cshl(parse_cshl(c))
          [] token.t = "NUMBER_OR_NAME" -> Cshl(parse_cshl(c))
          [] token.t = "DEFINED" ->
               IF second.t # "LPAREN" THEN Fatal(c2, "left parenthesis expected.")
               ELSE IF third.t \notin {"NAME", "NUMBER_OR_NAME"}
               THEN Fatal(c3, "can't be a variable name")
               ELSE IF peek_token(c3).t # "RPAREN"
               THEN Fatal(skip_token(c3), "right parenthesis expected.")
               ELSE Ok(Issue(skip_token(c3)),
                       mapSet(createMap, Skipped(createString(third.val)),
                              "variable-exists"),
                       lose)
          [] token.t = "NAME" ->
               IF second.t # "LPAREN"
               THEN Ok(Issue(c1),
                       mapSet(createMap, Skipped(createString(token.val)),
                              "variable-reference"),
                       lose)
               ELSE Funcall(FuncallArguments(c2, lose, createList))
          [] OTHER -> No(c, lose)

\* parse.c 3311-3586
parse_expression(c, lose, context, lhs, binop) ==
    LET \* the binary node of lhs and rhs, or the next round of new_rhs
        Binary(rhs, next_op, c2, lose2, ctx) ==
            IF binop # "expr_none" /\ OperandCheck(binop, lhs[1], rhs) # ""
            THEN Fatal(c2, OperandCheck(binop, lhs[1], rhs))
            ELSE IF next_op = "expr_none"
            THEN Ok(c2, Combine(binop, lhs[1], rhs), lose2)
            ELSE parse_expression(skip_token(c2), lose2, ctx,
                                  <<Combine(binop, lhs[1], rhs)>>, next_op)
        \* the subexpression of an operator that binds tighter
        Sub(sub, ctx) ==
            IF sub.st = "fatal" THEN sub
            ELSE IF sub.st = "false"
            THEN IF ~sub.lose THEN Fatal(sub.c, "expecting a subexpression")
                 ELSE No(sub.c, sub.lose)
            ELSE Binary(sub.node, "expr_none", sub.c, sub.lose, ctx)
        \* the operand nb followed by the operator op
        Operator(nb, op, ctx) ==
            IF op.st = "fatal" THEN Fatal(op.c, op.err)
            ELSE IF lhs = <<>>
            THEN IF op.op = "expr_none" THEN Ok(op.c, nb.node, nb.lose)
                 ELSE parse_expression(skip_token(op.c), nb.lose, ctx, <<nb.node>>,
                                       op.op)
            ELSE IF /\ binop # "expr_none"
                    /\ op.op # "expr_none"
                    /\ op_precedence(binop, op.op) < 0
            THEN Sub(parse_expression(skip_token(op.c), nb.lose, op_context(op.op),
                                      <<nb.node>>, op.op),
                     ctx)
            ELSE Binary(nb.node, op.op, op.c, nb.lose, ctx)
        Operand(nb, op) ==
            IF nb.st = "fatal" THEN nb
            ELSE IF nb.st = "false"
            THEN IF lhs # <<>> /\ ~nb.lose
                 THEN Fatal(nb.c, "expecting right-hand side.")
                 ELSE No(nb.c, nb.lose)
            ELSE Operator(nb, op,
                          IF op.op # "expr_none" THEN expression_context(nb.node)
                          ELSE context)
        Read(nb) == Operand(nb, NextOp(nb.c))
    IN  Read(parse_non_binary(c, lose, context))

\* parse.c 2288-2385
IsReference(node) ==
    mapContains(node, "variable-reference") \/ mapContains(node, "funcall")

parse_boolean_expression_unchecked(c, lose) ==
    parse_expression(c, lose, "context_boolean", <<>>, "expr_none")

parse_boolean_expression(c, lose) ==
    LET Expect(r) ==
            IF r.st = "ok" /\ ~is_boolean_expression(r.node) /\ ~IsReference(r.node)
            THEN Fatal(r.c, "Expecting a boolean expression.")
            ELSE r
    IN  Expect(parse_expression(c, lose, "context_boolean", <<>>, "expr_none"))

parse_data_expression(c, lose) ==
    LET Expect(r) ==
            IF r.st = "ok" /\ ~is_data_expression(r.node) /\ ~IsReference(r.node)
            THEN Fatal(r.c, "Expecting a data expression.")
            ELSE r
    IN  Expect(parse_expression(c, lose, "context_data", <<>>, "expr_none"))

parse_numeric_expression(c, lose) ==
    LET Expect(r) ==
            IF r.st = "ok" /\ ~is_numeric_expression(r.node) /\ ~IsReference(r.node)
            THEN Fatal(r.c, "Expecting a numeric expression.")
            ELSE r
    IN  Expect(parse_expression(c, lose, "context_numeric", <<>>, "expr_none"))

(***************************************************************************)
(* The expression parser as a state machine: one call of parse_expression  *)
(* in a chosen context, or of one of its typed wrappers, at the start of a *)
(* token stream.  The streams are chains of operands joined by binary      *)
(* operators, followed by a semicolon; operand i of a chain is the number  *)
(* i, the variable named by position, the quoted string, or a keyword.     *)
(***************************************************************************)
MaxOps == 2

DigitNames == <<"1", "2", "3", "4">>

Num(i) == Token("NUMBER", DigitNames[i], <<Ch0 + i>>)

VarNames == <<"a", "b", "c", "d">>

Operands(i) ==
    {Num(i), Token("NAME", VarNames[i], <<>>), Token("STRING", "s", <<>>),
     Tok("LEASE_TIME"), Tok("KNOWN")}

ChainOperands(i) == {Num(i), Token("NAME", VarNames[i], <<>>), Tok("LEASE_TIME")}

OperatorTokens ==
    {<<Tok(t)>> : t \in DOMAIN BinaryOps}
    \cup {<<Tok("BANG"), Tok("EQUAL")>>, <<Tok("TILDE"), Tok("EQUAL")>>,
          <<Tok("TILDE"), Tok("TILDE")>>}

ChainOperators == {<<Tok(t)>> : t \in {"PLUS", "ASTERISK", "EQUAL", "AND", "PIPE"}}

RECURSIVE Chains(_)
Chains(n) ==
    IF n = 0 THEN {<<x>> : x \in ChainOperands(1)}
    ELSE {ch \o o \o <<x>> : ch \in Chains(n - 1), o \in ChainOperators,
                             x \in ChainOperands(n + 1)}

OtherStreams ==
    {<<Tok("TOKEN_NOT"), Tok("KNOWN")>>,
     <<Tok("TOKEN_NOT"), Tok("LEASE_TIME")>>,
     <<Tok("LPAREN"), Token("NAME", "a", <<>>), Tok("PLUS"),
       Token("NAME", "b", <<>>), Tok("RPAREN"), Tok("ASTERISK"),
       Token("NAME", "c", <<>>)>>,
     <<Token("NAME", "a", <<>>), Tok("PLUS"), Token("NAME", "b", <<>>),
       Tok("AMPERSAND"), Token("NAME", "c", <<>>)>>,
     <<Token("NAME", "a", <<>>), Tok("CARET"), Token("NAME", "b", <<>>),
       Tok("AMPERSAND"), Token("NAME", "c", <<>>)>>,
     <<Token("NAME", "a", <<>>), Tok("MINUS"), Token("NAME", "b", <<>>),
       Tok("AMPERSAND"), Token("NAME", "c", <<>>), Tok("MINUS"),
       Token("NAME", "d", <<>>)>>,
     <<Token("NAME", "a", <<>>), Tok("PLUS"), Token("NAME", "b", <<>>),
       Tok("PIPE"), Token("NAME", "c", <<>>), Tok("MINUS"),
       Token("NAME", "d", <<>>)>>,
     <<Token("NAME", "a", <<>>), Tok("ASTERISK"), Token("NAME", "b", <<>>),
       Tok("PLUS"), Token("NAME", "c", <<>>), Tok("SLASH"),
       Token("NAME", "d", <<>>)>>,
     <<Tok("LPAREN"), Tok("KNOWN")>>,
     <<Token("NAME", "f", <<>>), Tok("LPAREN"), Num(1), Tok("COMMA"),
       Tok("KNOWN"), Tok("RPAREN")>>,
     <<Token("NAME", "f", <<>>), Tok("LPAREN"), Tok("RPAREN")>>,
     <<Tok("CHECK"), Token("STRING", "s", <<>>)>>,
     <<Tok("DEFINED"), Tok("LPAREN"), Token("NAME", "a", <<>>), Tok("RPAREN")>>,
     <<Token("NUMBER_OR_NAME", "", <<ChLowerA, ChLowerA + 1>>), Tok("COLON"),
       Num(1)>>,
     <<Tok("KNOWN"), Tok("BANG"), Tok("KNOWN")>>,
     <<Tok("KNOWN"), Tok("PLUS")>>,
     <<>>, <<Tok("RBRACE")>>}

\* the calls of a variadic built-in with 1 to MaxOps + 1 arguments
VariadicOperands(i) == {Token("NAME", VarNames[i], <<>>), Token("STRING", "s", <<>>)}

RECURSIVE VariadicArguments(_)
VariadicArguments(n) ==
    IF n = 0 THEN {<<>>}
    ELSE {Append(args, x) : args \in VariadicArguments(n - 1),
                            x \in VariadicOperands(n)}

RECURSIVE CommaList(_)
CommaList(args) ==
    IF Len(args) = 1 THEN args
    ELSE <<Head(args), Tok("COMMA")>> \o CommaList(Tail(args))

VariadicCall(keyword, args) ==
    <<Tok(keyword), Tok("LPAREN")>> \o CommaList(args) \o <<Tok("RPAREN")>>

VariadicStreams ==
    {VariadicCall(keyword, args) :
        keyword \in {"CONCAT", "PICK"},
        args \in UNION {VariadicArguments(n) : n \in 1..(MaxOps + 1)}}

OptionStreams ==
    {<<Tok(k)>> \o n : k \in {"OPTION", "CONFIG_OPTION", "EXISTS"},
                       n \in {<<Token("NAME", "host-name", <<>>)>>,
                              <<Token("NAME", "foo", <<>>)>>,
                              <<Token("NAME", "unknown-224", <<>>)>>,
                              <<Token("NAME", "server", <<>>), Tok("DOT"),
                                Token("NAME", "max-lease-time", <<>>)>>,
                              <<Token("NAME", "server", <<>>), Tok("DOT"),
                                Token("NAME", "foo", <<>>)>>,
                              <<Token("NAME", "server", <<>>), Tok("DOT"),
                                Token("NAME", "unknown-224", <<>>)>>}}

ExprStreams ==
    {s \o <<Tok("SEMI")>> :
        s \in {<<x>> \o o \o <<y>> : x \in Operands(1), o \in OperatorTokens,
                                     y \in Operands(2)}
              \cup UNION {Chains(n) : n \in 0..MaxOps} \cup OtherStreams
              \cup VariadicStreams \cup OptionStreams}

Contexts ==
    {"context_any", "context_boolean", "context_data", "context_numeric",
     "context_data_or_numeric"}

Cfile(toks) ==
    [toks |-> toks, pos |-> 1, issue_counter |-> 0, stack |-> <<>>,
     local_family |-> "AF_INET", little_endian |-> FALSE, options |-> {},
     comments |-> <<>>, uninit |-> FALSE]

NoResult == [st |-> "none", c |-> Cfile(<<>>), node |-> createNull, lose |-> FALSE,
             err |-> ""]

InitExpr ==
    /\ num = NumIdle
    /\ cfile \in {[Cfile(s) EXCEPT !.options = Options] : s \in ExprStreams}
    /\ out = [called |-> "none", context |-> "none", res |-> NoResult,
              classes |-> <<>>]
    /\ decl = DeclIdle

ParseExpression ==
    /\ out.called = "none"
    /\ \E context \in Contexts :
         out' = [called |-> "parse_expression", context |-> context,
                 res |-> parse_expression(cfile, FALSE, context, <<>>, "expr_none"),
                 classes |-> <<>>]
    /\ cfile' = out'.res.c
    /\ UNCHANGED <<num, decl>>

ParseTypedExpression ==
    /\ out.called = "none"
    /\ \/ out' = [called |-> "parse_boolean_expression",
                  context |-> "context_boolean",
                  res |-> parse_boolean_expression(cfile, FALSE),
                  classes |-> <<>>]
       \/ out' = [called |-> "parse_data_expression", context |-> "context_data",
                  res |-> parse_data_expression(cfile, FALSE),
                  classes |-> <<>>]
       \/ out' = [called |-> "parse_numeric_expression",
                  context |-> "context_numeric",
                  res |-> parse_numeric_expression(cfile, FALSE),
                  classes |-> <<>>]
    /\ cfile' = out'.res.c
    /\ UNCHANGED <<num, decl>>

\* expression_context applied to the node a successful parse built, and
\* applied to it again.
ClassifyResult ==
    /\ out.called # "none"
    /\ out.res.st = "ok"
    /\ Len(out.classes) < 2
    /\ out' = [out EXCEPT !.classes = Append(@, expression_context(out.res.node))]
    /\ UNCHANGED <<num, cfile, decl>>

NextExpr == ParseExpression \/ ParseTypedExpression \/ ClassifyResult

SpecExpr == InitExpr /\ [][NextExpr]_vars

(***************************************************************************)
(* C1.  Multiplicative operators bind tighter than additive ones: for any  *)
(* three operands a, b, c accepted in numeric context, parsing `a + b * c` *)
(* in numeric context succeeds and yields add(a, multiply(b, c)), never    *)
(* multiply(add(a, b), c); in particular for `1 + 2 * 3`.                  *)
(***************************************************************************)
AddThenMultiply(toks) ==
    /\ Len(toks) = 6
    /\ toks[1] \in ChainOperands(1) /\ toks[2].t = "PLUS"
    /\ toks[3] \in ChainOperands(2) /\ toks[4].t = "ASTERISK"
    /\ toks[5] \in ChainOperands(3)

C1_MultiplicationBindsTighter ==
    (/\ out.called \in {"parse_expression", "parse_numeric_expression"}
     /\ out.context = "context_numeric"
     /\ AddThenMultiply(cfile.toks))
    => /\ out.res.st = "ok"
       /\ mapContains(out.res.node, "add")
       /\ mapContains(mapGet(mapGet(out.res.node, "add"), "right"), "multiply")
       /\ ~mapContains(out.res.node, "multiply")

(***************************************************************************)
(* C3.  Every binary node built by parse_expression has BOTH operands in   *)
(* the operator's class: Data, Numeric or Any for equal/not-equal; Data    *)
(* for regex-match and iregex-match; Boolean or Any for and/or; Numeric or *)
(* Any for the arithmetic and bitwise operators.  A combination violating  *)
(* this on either side is fatal and no node is produced.                   *)
(***************************************************************************)
BinaryKeys == {BinopName[o] : o \in DOMAIN BinopName \ {"expr_none"}}

InOperatorClass(key, context) ==
    IF key \in {"equal", "not-equal"}
    THEN context \in {"context_data", "context_numeric", "context_any"}
    ELSE IF key \in {"regex-match", "iregex-match"} THEN context = "context_data"
    ELSE IF key \in {"and", "or"} THEN context \in {"context_boolean", "context_any"}
    ELSE context \in {"context_numeric", "context_any"}

RECURSIVE OperandsInClass(_)
OperandsInClass(node) ==
    (/\ node.type = "map"
     /\ Len(node.keys) = 1
     /\ node.keys[1] \in BinaryKeys)
    => LET left == mapGet(node.vals[1], "left")
           right == mapGet(node.vals[1], "right")
       IN  /\ InOperatorClass(node.keys[1], expression_context(left))
           /\ InOperatorClass(node.keys[1], expression_context(right))
           /\ OperandsInClass(left)
           /\ OperandsInClass(right)

C3_BothOperandsChecked == out.res.st = "ok" => OperandsInClass(out.res.node)

(***************************************************************************)
(* C4.  An operand that classifies Any is compatible with every operator:  *)
(* for `x op y` where one operand classifies Any and the other is in the   *)
(* operator's class, parse_expression accepts and builds the binary node.  *)
(* The operands are those whose class does not depend on the context.      *)
(***************************************************************************)
OperatorKey(o) ==
    IF Len(o) = 1 THEN BinopName[BinaryOps[o[1].t]]
    ELSE IF o[1].t = "BANG" THEN "not-equal"
    ELSE IF o[2].t = "TILDE" THEN "iregex-match"
    ELSE "regex-match"

OperandClass(x) ==
    IF x.t = "NAME" THEN "context_any"
    ELSE IF x.t = "STRING" THEN "context_data"
    ELSE IF x.t = "LEASE_TIME" THEN "context_numeric"
    ELSE "context_boolean"

C4_AnyIsCompatible ==
    \A x \in Operands(1), o \in OperatorTokens, y \in Operands(2) :
        (/\ out.called = "parse_expression"
         /\ cfile.toks = <<x>> \o o \o <<y, Tok("SEMI")>>
         /\ x.t # "NUMBER" /\ y.t # "NUMBER"
         /\ \/ /\ OperandClass(x) = "context_any"
               /\ InOperatorClass(OperatorKey(o), OperandClass(y))
            \/ /\ OperandClass(y) = "context_any"
               /\ InOperatorClass(OperatorKey(o), OperandClass(x)))
        => /\ out.res.st = "ok"
           /\ mapContains(out.res.node, OperatorKey(o))

(***************************************************************************)
(* C11.  A variadic built-in is right-folded: parsing concat(a, b, c)      *)
(* yields concat{left: a, right: concat{left: b, right: c}}, and           *)
(* pick-first-value(a, b, c) yields the same right-nested chain of         *)
(* two-operand nodes under "pick-first-value", not a flat list.            *)
(***************************************************************************)
VariadicKey == ("CONCAT" :> "concat") @@ ("PICK" :> "pick-first-value")

\* the element that parse_non_binary builds for a one-token operand
OperandNode(x) == parse_non_binary(Cfile(<<x>>), FALSE, "context_data").node

\* node is the chain of two-operand nodes keyed key over the elements args
RECURSIVE RightFolded(_, _, _)
RightFolded(node, key, args) ==
    /\ mapContains(node, key)
    /\ mapGet(node, key).type = "map"
    /\ mapGet(node, key).keys = <<"left", "right">>
    /\ mapGet(node, key).vals[1] = args[1]
    /\ IF Len(args) = 2 THEN mapGet(node, key).vals[2] = args[2]
       ELSE RightFolded(mapGet(node, key).vals[2], key, Tail(args))

C11_VariadicRightFolded ==
    \A keyword \in DOMAIN VariadicKey :
      \A args \in UNION {VariadicArguments(n) : n \in 2..(MaxOps + 1)} :
        (/\ out.called = "parse_expression"
         /\ cfile.toks = VariadicCall(keyword, args) \o <<Tok("SEMI")>>)
        => /\ out.res.st = "ok"
           /\ RightFolded(out.res.node, VariadicKey[keyword],
                          [i \in 1..Len(args) |-> OperandNode(args[i])])

(***************************************************************************)
(* C13.  For `option <name>` or `config-option <name>` in an expression    *)
(* with a name that is not in the registry: in the "server" space the      *)
(* parse is fatal; in any other space the parse succeeds and a descriptor  *)
(* for the name has been registered.                                       *)
(***************************************************************************)
ReferenceSpace(toks) == IF toks[3].t = "DOT" THEN toks[2].val ELSE "dhcp"

ReferenceName(toks) == IF toks[3].t = "DOT" THEN toks[4].val ELSE toks[2].val

UnregisteredReference ==
    /\ out.called = "parse_expression"
    /\ cfile.toks[1].t \in {"OPTION", "CONFIG_OPTION"}
    /\ \A o \in Options : ~(/\ o.space = ReferenceSpace(cfile.toks)
                            /\ o.name = ReferenceName(cfile.toks))

C13_UnknownOptionName ==
    UnregisteredReference =>
        IF ReferenceSpace(cfile.toks) = "server" THEN out.res.st = "fatal"
        ELSE /\ out.res.st = "ok"
             /\ \E o \in cfile.options :
                   /\ o.space = ReferenceSpace(cfile.toks)
                   /\ o.name = ReferenceName(cfile.toks)

(***************************************************************************)
(* The option registry as a state machine: up to MaxCalls calls of         *)
(* parse_option_name, one after the other on the same registry, each on an *)
(* option name that follows the keyword; a fatal error ends the run.  out  *)
(* keeps the registry as it was before the last call.                      *)
(***************************************************************************)
MaxCalls == 3

OptionNames ==
    {<<Token("NAME", n, <<>>)>> :
        n \in {"host-name", "foo", "unknown-0", "unknown-200", "unknown-224",
               "unknown-0224", "unknown-255"}}
    \cup {<<Token("NAME", sp, <<>>), Tok("DOT"), Token("NAME", n, <<>>)>> :
            sp \in {"agent", "server"}, n \in {"unknown-224", "max-lease-time"}}

InitOption ==
    /\ num = NumIdle
    /\ cfile \in {[Cfile(<<>>) EXCEPT !.options = Options, !.local_family = f] :
                    f \in {"AF_INET", "AF_INET6"}}
    /\ out = [called |-> "none", before |-> Options,
              res |-> OptionResult("none", cfile, Option("", "", 0, "", ""), "")]
    /\ decl = [calls |-> 0]

ParseOptionName ==
    /\ decl.calls < MaxCalls
    /\ out.res.st # "fatal"
    /\ \E name \in OptionNames, allocate \in BOOLEAN :
         out' = [called |-> "parse_option_name", before |-> cfile.options,
                 res |-> parse_option_name(
                             [cfile EXCEPT !.toks = <<Tok("OPTION")>> \o name
                                                      \o <<Tok("SEMI")>>,
                                           !.pos = 2],
                             allocate)]
    /\ cfile' = out'.res.c
    /\ decl' = [calls |-> decl.calls + 1]
    /\ UNCHANGED num

NextOption == ParseOptionName

SpecOption == InitOption /\ [][NextOption]_vars

(***************************************************************************)
(* C14.  An unknown-N descriptor is manufactured and registered only by a  *)
(* reference to a code N that no descriptor of the space has; a reference  *)
(* to a code that is registered returns a registered descriptor and leaves *)
(* the registry as it was.  So no unknown-N descriptor shares its space    *)
(* and code with another descriptor, and none has code 0 or, in IPv4 mode, *)
(* code 255.                                                               *)
(***************************************************************************)
C14_UnknownFabricatedOnce ==
    /\ \A u \in cfile.options :
          u.name \in DOMAIN UnknownCodes
          => /\ \A o \in cfile.options :
                   (o.space = u.space /\ o.code = u.code) => o = u
             /\ u.code # 0
             /\ ~(cfile.local_family = "AF_INET" /\ u.code = 255)
    /\ (/\ out.called = "parse_option_name"
        /\ out.res.st = "ok"
        /\ ReferenceName(cfile.toks) \in DOMAIN UnknownCodes)
       => LET registered ==
                  {o \in out.before :
                      /\ o.space = ReferenceSpace(cfile.toks)
                      /\ o.code = UnknownCodes[ReferenceName(cfile.toks)]}
          IN  IF registered = {}
              THEN /\ out.res.option \notin out.before
                   /\ out.res.option.code = UnknownCodes[ReferenceName(cfile.toks)]
                   /\ cfile.options = out.before \cup {out.res.option}
              ELSE /\ out.res.option \in registered
                   /\ cfile.options = out.before

\* the second reference to code 224 of the dhcp space, spelled differently
C14_Witness ==
    /\ out.called = "parse_option_name"
    /\ out.res.st = "ok"
    /\ decl.calls = 2
    /\ ReferenceSpace(cfile.toks) = "dhcp"
    /\ ReferenceName(cfile.toks) = "unknown-0224"
    /\ out.res.option = Option("dhcp", "unknown-224", 224, "X", "")
    /\ out.res.option \in out.before

(***************************************************************************)
(* parse_numeric_aggregate as a state machine: one call at the start of a  *)
(* token stream of up to MaxNumbers numbers joined by colons or by dots    *)
(* and followed by nothing, a semicolon, a brace or one more separator.    *)
(* The callers pass a buffer only together with a nonzero *max.            *)
(***************************************************************************)
MaxNumbers == 4

NumTok(t, ds) == Token(t, "", Render(ds, FALSE))

\* 10, aa and 4294967297
NumberPool ==
    {NumTok("NUMBER", <<1, 0>>), NumTok("NUMBER_OR_NAME", <<10, 10>>),
     NumTok("NUMBER", <<4, 2, 9, 4, 9, 6, 7, 2, 9, 7>>)}

Separators == {"COLON", "DOT"}

RECURSIVE Joined(_, _)
Joined(numbers, sep) ==
    IF Len(numbers) <= 1 THEN numbers
    ELSE <<Head(numbers), Tok(sep)>> \o Joined(Tail(numbers), sep)

HardwareExample ==
    Joined(<<NumTok("NUMBER_OR_NAME", <<10, 10>>), NumTok("NUMBER_OR_NAME", <<11, 11>>),
             NumTok("NUMBER_OR_NAME", <<12, 12>>)>>, "COLON")

AddressExample ==
    Joined(<<NumTok("NUMBER", <<1, 9, 2>>), NumTok("NUMBER", <<1, 6, 8>>),
             NumTok("NUMBER", <<1>>), NumTok("NUMBER", <<1, 0>>)>>, "DOT")

AggregateStreams ==
    {Joined(numbers, sep) \o ending :
        numbers \in UNION {[1..n -> NumberPool] : n \in 0..MaxNumbers},
        sep \in Separators,
        ending \in {<<>>, <<Tok("SEMI")>>, <<Tok("RBRACE")>>, <<Tok("COLON")>>,
                    <<Tok("DOT")>>}}
    \cup {e \o ending : e \in {HardwareExample, AddressExample},
                         ending \in {<<>>, <<Tok("SEMI")>>}}

InitAggregate ==
    /\ num = NumIdle
    /\ cfile \in {Cfile(s) : s \in AggregateStreams}
    /\ out = [called |-> "none", buf |-> FALSE, max |-> 0, separator |-> "COLON",
              base |-> 16, size |-> 8,
              res |-> AggregateResult("none", cfile, <<>>, 0, "")]
    /\ decl = DeclIdle

ParseNumericAggregate ==
    /\ out.called = "none"
    /\ \E buf \in BOOLEAN, max \in 0..MaxNumbers, separator \in Separators,
          base \in {10, 16}, size \in {8, 16} :
         /\ buf => max # 0
         /\ out' = [called |-> "parse_numeric_aggregate", buf |-> buf, max |-> max,
                    separator |-> separator, base |-> base, size |-> size,
                    res |-> parse_numeric_aggregate(cfile, buf, max, separator,
                                                    base, size)]
    /\ cfile' = out'.res.c
    /\ UNCHANGED <<num, decl>>

NextAggregate == ParseNumericAggregate

SpecAggregate == InitAggregate /\ [][NextAggregate]_vars

(***************************************************************************)
(* C15.  On success parse_numeric_aggregate returns count * (width/8)      *)
(* bytes, the big-endian encodings (the value modulo 2^width, as in C6) of *)
(* the numbers in input order, and stores count in *max.  With a nonzero   *)
(* max, count is max, and a token other than the separator after fewer     *)
(* numbers is the failure "too few numbers." (the end of the stream is     *)
(* C16's case).  With max zero, count is the number of numbers joined by   *)
(* the separator, and the first token that is not the separator is left    *)
(* unread.  "aa:bb:cc" gives AA BB CC and count 3; "192.168.1.10" with max *)
(* 4 gives 192 168 1 10.                                                   *)
(***************************************************************************)
\* the token is a number of this base
NumberToken(tok, base) ==
    /\ tok.t = "NUMBER" \/ (base = 16 /\ tok.t = "NUMBER_OR_NAME")
    /\ IsNumericToken(tok.txt, base)

\* the token is a number of this base that fits the width
WellFormedNumber(tok, base, size) ==
    /\ NumberToken(tok, base)
    /\ ~WideGt(Magnitude(tok.txt, base), WidthBound(FALSE, size))

\* the stream starts with k numbers joined by the separator of the call
JoinedNumbers(k) ==
    /\ Len(cfile.toks) >= 2 * k - 1
    /\ \A i \in 1..k : WellFormedNumber(cfile.toks[2 * i - 1], out.base, out.size)
    /\ \A i \in 1..(k - 1) : cfile.toks[2 * i].t = out.separator

RECURSIVE Encodings(_, _, _, _)
Encodings(toks, count, base, size) ==
    IF count = 0 THEN <<>>
    ELSE Encodings(toks, count - 1, base, size)
         \o ExpectedBytes(FALSE, Magnitude(toks[2 * count - 1].txt, base), size)

AggregateCalled == out.called = "parse_numeric_aggregate"

C15_AggregateBytesAndCount ==
    /\ (AggregateCalled /\ out.res.st = "ok")
       => /\ out.res.max >= 1
          /\ Len(cfile.toks) >= 2 * out.res.max - 1
          /\ \A i \in 1..out.res.max : NumberToken(cfile.toks[2 * i - 1], out.base)
          /\ \A i \in 1..(out.res.max - 1) : cfile.toks[2 * i].t = out.separator
          /\ Len(out.res.r) = out.res.max * (out.size \div 8)
          /\ out.res.r = Encodings(cfile.toks, out.res.max, out.base, out.size)
          /\ cfile.pos = 2 * out.res.max
          /\ out.max # 0 => out.res.max = out.max
          /\ out.max = 0 => peek_token(cfile).t # out.separator
    /\ \A k \in 1..MaxNumbers :
          (/\ AggregateCalled
           /\ out.max # 0 /\ k < out.max
           /\ JoinedNumbers(k)
           /\ Len(cfile.toks) >= 2 * k
           /\ cfile.toks[2 * k].t # out.separator)
          => (out.res.st = "fatal" /\ out.res.err = "too few numbers.")
    /\ (/\ AggregateCalled
        /\ Len(cfile.toks) >= 5
        /\ SubSeq(cfile.toks, 1, 5) = HardwareExample
        /\ out.max = 0 /\ out.separator = "COLON" /\ out.base = 16 /\ out.size = 8)
       => (out.res.st = "ok" /\ out.res.r = <<170, 187, 204>> /\ out.res.max = 3)
    /\ (/\ AggregateCalled
        /\ Len(cfile.toks) >= 7
        /\ SubSeq(cfile.toks, 1, 7) = AddressExample
        /\ out.max = 4 /\ out.separator = "DOT" /\ out.base = 10 /\ out.size = 8)
       => (out.res.st = "ok" /\ out.res.r = <<192, 168, 1, 10>> /\ out.res.max = 4)

\* three two-byte numbers read with max zero, the semicolon left unread
C15_Witness ==
    /\ AggregateCalled
    /\ out.res.st = "ok"
    /\ out.max = 0 /\ out.size = 16 /\ out.base = 16
    /\ out.res.max = 3
    /\ out.res.r = <<0, 16, 0, 170, 0, 16>>
    /\ peek_token(cfile).t = "SEMI"

(***************************************************************************)
(* C16.  When the token stream ends before parse_numeric_aggregate has     *)
(* read the numbers it needs, at a place where it expects a number or at a *)
(* place where it expects a separator, the error is "unexpected end of     *)
(* file".                                                                  *)
(***************************************************************************)
\* the whole stream is numbers joined by the separator, with or without a
\* separator after the last one, and the call needs more than it holds
PrematureEnd ==
    LET n == Len(cfile.toks)
        k == (n + 1) \div 2
    IN  /\ AggregateCalled
        /\ \A i \in 1..n :
              IF i % 2 = 1 THEN WellFormedNumber(cfile.toks[i], out.base, out.size)
              ELSE cfile.toks[i].t = out.separator
        /\ IF n % 2 = 0 THEN out.max = 0 \/ k < out.max
           ELSE out.max # 0 /\ k < out.max

C16_EndOfFileReported ==
    PrematureEnd => (out.res.st = "fatal" /\ out.res.err = "unexpected end of file")

(***************************************************************************)
(* C17 as stated.  Classifying a binary-equal node built by                *)
(* parse_expression with expression_context never fails and always returns *)
(* Data, and classifying the same node again returns the same result.      *)
(***************************************************************************)
EqualNodeBuilt ==
    /\ out.called # "none"
    /\ out.res.st = "ok"
    /\ mapContains(out.res.node, "equal")

C17_EqualClassifiesData ==
    EqualNodeBuilt =>
        \A i \in 1..Len(out.classes) : out.classes[i] = "context_data"

(***************************************************************************)
(* C17 as the code has it.  Classifying a binary-equal node built by       *)
(* parse_expression with expression_context always returns Boolean, and    *)
(* classifying the same node again returns the same result.                *)
(***************************************************************************)
C17_EqualClassifiesBoolean ==
    EqualNodeBuilt =>
        \A i \in 1..Len(out.classes) : out.classes[i] = "context_boolean"

C17_Witness ==
    /\ EqualNodeBuilt
    /\ out.called = "parse_expression"
    /\ mapContains(mapGet(out.res.node, "equal"), "left")
    /\ mapContains(mapGet(out.res.node, "equal"), "right")
    /\ out.classes = <<"context_boolean", "context_boolean">>

(***************************************************************************)
(* C18.  The bitwise operators (binary-and, binary-or, binary-xor) share   *)
(* one precedence level and it is the lowest: when a bitwise operator      *)
(* follows a pending equality, logical, additive or multiplicative         *)
(* operator, parse_expression first combines the pending pair and never    *)
(* recurses to absorb the bitwise operator into the right-hand side: for   *)
(* `x p y q z` with q bitwise the tree is q(p(x, y), z), and `a + b & c`   *)
(* yields binary-and(add(a, b), c).                                        *)
(***************************************************************************)
BitwiseOps == {"expr_binary_and", "expr_binary_or", "expr_binary_xor"}

PendingThenBitwise(toks) ==
    /\ Len(toks) = 6
    /\ toks[2].t \in DOMAIN BinaryOps /\ BinaryOps[toks[2].t] \notin BitwiseOps
    /\ toks[4].t \in DOMAIN BinaryOps /\ BinaryOps[toks[4].t] \in BitwiseOps
    /\ toks[6].t = "SEMI"

C18_BitwiseLowestPrecedence ==
    /\ \A p, q \in BitwiseOps : op_precedence(p, q) = 0
    /\ (/\ out.called = "parse_expression"
        /\ PendingThenBitwise(cfile.toks)
        /\ out.res.st = "ok")
       => LET pending == BinopName[BinaryOps[cfile.toks[2].t]]
              bitwise == BinopName[BinaryOps[cfile.toks[4].t]]
          IN  /\ mapContains(out.res.node, bitwise)
              /\ mapContains(mapGet(mapGet(out.res.node, bitwise), "left"),
                             pending)

(***************************************************************************)
(* parse_non_binary as a state machine: one call on a stream that starts   *)
(* with a token of one of the kinds below, with either value of *lose on   *)
(* entry.  decl remembers the parse state and *lose before the call.       *)
(***************************************************************************)
\* kinds with no case in the switch of parse_non_binary
NonStarters ==
    (Punctuation \ {"LPAREN"})
    \cup {"IF", "ELSE", "ELSIF", "BREAK", "CASE", "DEFAULT", "DEFINE", "EVAL", "LOG",
          "ON", "RETURN", "SWITCH", "TOKEN_SET", "UNSET", "SEND", "AND", "OR",
          "INFINITE", "COMMIT"}

StartTokens ==
    {Tok(t) : t \in NonStarters \cup {"KNOWN", "LEASE_TIME", "LPAREN", "TOKEN_NOT",
                                      "CHECK"}}
    \cup {Token("NAME", "a", <<>>), Token("STRING", "s", <<>>), Num(1)}

NonBinaryStreams ==
    {<<>>} \cup {<<t>> \o rest : t \in StartTokens,
                                 rest \in {<<>>, <<Tok("SEMI")>>,
                                           <<Tok("KNOWN"), Tok("SEMI")>>}}

InitNonBinary ==
    /\ num = NumIdle
    /\ cfile \in {[Cfile(s) EXCEPT !.options = Options] : s \in NonBinaryStreams}
    /\ out = [called |-> "none", context |-> "none", res |-> NoResult]
    /\ decl \in [c : {cfile}, lose : BOOLEAN]

ParseNonBinary ==
    /\ out.called = "none"
    /\ \E context \in Contexts :
         out' = [called |-> "parse_non_binary", context |-> context,
                 res |-> parse_non_binary(cfile, decl.lose, context)]
    /\ cfile' = out'.res.c
    /\ UNCHANGED <<num, decl>>

NextNonBinary == ParseNonBinary

SpecNonBinary == InitNonBinary /\ [][NextNonBinary]_vars

(***************************************************************************)
(* C22.  When the current token cannot begin any expression,               *)
(* parse_non_binary reports 'not an expression' non-fatally: it returns    *)
(* false, consumes no token, leaves the lose flag unchanged and builds no  *)
(* node, so the caller sees the same parse state as before the call.       *)
(***************************************************************************)
CannotBegin == peek_token(decl.c).t \in NonStarters \cup {"END_OF_FILE"}

C22_NotAnExpression ==
    (out.called = "parse_non_binary" /\ CannotBegin)
    => /\ out.res.st = "false"
       /\ out.res.c = decl.c
       /\ cfile = decl.c
       /\ out.res.lose = decl.lose
       /\ out.res.node = createNull

C22_Witness ==
    /\ out.called = "parse_non_binary"
    /\ peek_token(decl.c).t = "RBRACE"
    /\ Len(decl.c.toks) = 2
    /\ decl.lose
    /\ out.res.st = "false"
    /\ out.res.lose
    /\ cfile.pos = 1

(***************************************************************************)
(* C26.  Binary operators of equal precedence associate to the left in     *)
(* every expression parse_expression accepts: for operators op1 and op2 of *)
(* the same level, `x op1 y op2 z` yields op2(op1(x, y), z) even when y is *)
(* itself a sub-expression built by a tighter-binding operator (e.g.       *)
(* `a - b & c - d` yields subtract(subtract(a, binary-and(b, c)), d)); the *)
(* recursive call made for a tighter operator returns before consuming an  *)
(* operator that binds no tighter than the caller's pending operator.      *)
(***************************************************************************)
OperatorAt(toks, i) ==
    IF toks[i].t \in DOMAIN BinaryOps THEN BinaryOps[toks[i].t] ELSE "expr_none"

\* x op1 y op2 z ; with op1 and op2 of one level
SameLevelPair(toks) ==
    /\ Len(toks) = 6
    /\ OperatorAt(toks, 2) # "expr_none" /\ OperatorAt(toks, 4) # "expr_none"
    /\ op_precedence(OperatorAt(toks, 2), OperatorAt(toks, 4)) = 0

\* x op1 y1 q y2 op2 z ; with op1 and op2 of one level and q tighter
SameLevelAroundTighter(toks) ==
    /\ Len(toks) = 8
    /\ OperatorAt(toks, 2) # "expr_none" /\ OperatorAt(toks, 4) # "expr_none"
    /\ OperatorAt(toks, 6) # "expr_none"
    /\ op_precedence(OperatorAt(toks, 2), OperatorAt(toks, 6)) = 0
    /\ op_precedence(OperatorAt(toks, 2), OperatorAt(toks, 4)) < 0

\* node is op2(op1(..), ..)
LeftNested(node, op1, op2) ==
    /\ mapContains(node, BinopName[op2])
    /\ mapContains(mapGet(mapGet(node, BinopName[op2]), "left"), BinopName[op1])

C26_EqualPrecedenceLeftAssociative ==
    (out.called = "parse_expression" /\ out.res.st = "ok")
    => /\ SameLevelPair(cfile.toks)
          => LeftNested(out.res.node, OperatorAt(cfile.toks, 2),
                        OperatorAt(cfile.toks, 4))
       /\ SameLevelAroundTighter(cfile.toks)
          => /\ LeftNested(out.res.node, OperatorAt(cfile.toks, 2),
                           OperatorAt(cfile.toks, 6))
             /\ mapContains(mapGet(mapGet(mapGet(mapGet(out.res.node,
                                BinopName[OperatorAt(cfile.toks, 6)]), "left"),
                                BinopName[OperatorAt(cfile.toks, 2)]), "right"),
                            BinopName[OperatorAt(cfile.toks, 4)])

(***************************************************************************)
(* The declaration stack: stack[1] is the root group, stack[Len(stack)]    *)
(* the innermost declaration; a frame is its kind and its element.         *)
(***************************************************************************)
Frame(kind) == [kind |-> kind, elem |-> createMap]

\* replace or add the entry k of the map m
MapPut(m, e, k) ==
    IF mapContains(m, k)
    THEN [m EXCEPT !.vals[CHOOSE i \in 1..Len(m.keys) : m.keys[i] = k] = e]
    ELSE mapSet(m, e, k)

\* push item on the list stored under key in frame where, creating the list
\* first if there is none (parse.c 3772-3777, 4005-4011)
PushInFrame(c, where, key, item, fresh) ==
    LET frame == c.stack[where].elem
        list == IF mapContains(frame, key) THEN mapGet(frame, key) ELSE fresh
    IN  [c EXCEPT !.stack[where].elem = MapPut(frame, listPush(list, item), key)]

RECURSIVE Decimal(_)
Decimal(n) ==
    IF n < 0 THEN <<ChMinus>> \o Decimal(0 - n)
    ELSE IF n < 10 THEN <<Ch0 + n>>
    ELSE Decimal(n \div 10) \o <<Ch0 + (n % 10)>>

createBool(b) == [Element("boolean") EXCEPT !.ival = IF b THEN 1 ELSE 0]

\* parse.c 3588-3659
RECURSIVE OptionDataLoop(_, _)
OptionDataLoop(c, acc) ==
    LET token == peek_token(c)
        c1 == skip_token(c)
        off == is_identifier(token.t) /\ token.val = "off"
        on == is_identifier(token.t) /\ ~off /\ token.t = "ON"
        ignore == is_identifier(token.t) /\ ~off /\ ~on /\ token.t = "IGNORE"
        item == IF off THEN "false" ELSE IF on THEN "true" ELSE token.val
    IN  IF token.t = "END_OF_FILE" THEN [acc EXCEPT !.st = "fatal", !.c = c]
        ELSE IF token.t = "SEMI" THEN [acc EXCEPT !.c = c]
        ELSE IF token.t = "COMMA"
        THEN OptionDataLoop(c1, [acc EXCEPT !.data = @ \o ", ", !.saved = @ \o ","])
        ELSE OptionDataLoop(c1, [acc EXCEPT !.data = @ \o item,
                                            !.saved = @ \o token.val,
                                            !.canon_bool = @ \/ off \/ on,
                                            !.has_ignore = @ \/ ignore])

parse_option_data(expr, c) ==
    LET Data(r) ==
            LET e1 == IF r.canon_bool
                      THEN Commented(expr,
                                     "/// canonized booleans to  lowercase true or false")
                      ELSE expr
                e2 == IF r.has_ignore
                      THEN Skipped(Commented(e1, "/// 'ignore' pseudo-boolean is used"))
                      ELSE e1
                e3 == IF r.canon_bool \/ r.has_ignore
                      THEN mapSet(e2, Skipped(createString(r.saved)), "original-data")
                      ELSE e2
            IN  IF r.st = "fatal" THEN Fatal(r.c, "unexpected end of file")
                ELSE Ok(IF r.has_ignore THEN Issue(r.c) ELSE r.c,
                        mapSet(e3, createString(r.data), "data"), FALSE)
    IN  Data(OptionDataLoop(c, [st |-> "ok", c |-> c, data |-> "", saved |-> "",
                                canon_bool |-> FALSE, has_ignore |-> FALSE]))

\* the frame an option statement is stored in (parse.c 3763-3770)
RECURSIVE OptionFrame(_, _)
OptionFrame(c, where) ==
    IF where = 0 THEN 0
    ELSE IF c.stack[where].kind = "PARAMETER" THEN OptionFrame(c, where - 1)
    ELSE IF c.local_family = "AF_INET" /\ c.stack[where].kind = "POOL_DECL"
    THEN OptionFrame(c, where - 1)
    ELSE where

(***************************************************************************)
(* Config statements (parse.c 3785-4106): parse_config_data for the lease  *)
(* interval, unsigned 32-bit, text and flag formats, parse_config_statement *)
(* and config_valid_lifetime.  A special option given without a value      *)
(* (`name ; ;`) makes the rewriter dereference the NULL that mapGet         *)
(* returns; the model ends that parse as it ends a fatal error.            *)
(***************************************************************************)
\* ntohl of the four bytes convert_num stored in a uint32_t
ntohl_bytes(buf) == ((buf[1] * 256 + buf[2]) * 256 + buf[3]) * 256 + buf[4]

\* ntohs applied to a uint8_t (parse.c 3892): the byte is widened to 16 bits
\* and the two bytes are swapped on a little-endian host
ntohs_byte(b, le) == IF le THEN b * 256 ELSE b

\* ntohs of the two bytes convert_num stored in a uint16_t
ntohs_bytes(buf) == buf[1] * 256 + buf[2]

\* the resolver's table: the names gethostbyname knows, with the text
\* inet_ntop prints for the first address
Hosts == [gw |-> "10.0.0.1"]

inet_ntop(bin) ==
    ToString(bin[1]) \o "." \o ToString(bin[2]) \o "." \o ToString(bin[3])
        \o "." \o ToString(bin[4])

\* parse.c 170-198; name is <<>> while s is NULL
RECURSIVE parse_host_name(_, _)
parse_host_name(c, name) ==
    LET token == peek_token(c)
        c1 == skip_token(c)
        s == IF name = <<>> THEN <<token.val>> ELSE <<name[1] \o token.val>>
    IN  IF ~is_identifier(token.t) /\ token.t # "NUMBER" THEN [c |-> c, name |-> name]
        ELSE IF peek_token(c1).t = "DOT"
        THEN parse_host_name(skip_token(c1), <<s[1] \o ".">>)
        ELSE [c |-> c1, name |-> s]

\* parse.c 209-272, check_multi false
parse_ip_addr_or_hostname(c) ==
    LET token == peek_token(c)
        ipaddr == /\ token.t = "NUMBER"
                  /\ peek_token(skip_token(c)).t = "DOT"
                  /\ peek_token(skip_token(skip_token(c))).t = "NUMBER"
        Address(agg) ==
            IF agg.st = "fatal" THEN Fatal(agg.c, agg.err)
            ELSE Ok(agg.c, createString(inet_ntop(agg.r)), FALSE)
        Lookup(h) ==
            IF h.name = <<>> THEN No(h.c, FALSE)
            ELSE IF h.name[1] \notin DOMAIN Hosts THEN Fatal(h.c, "host unknown.")
            ELSE Ok(h.c, createString(Hosts[h.name[1]]), FALSE)
    IN  IF ipaddr
        THEN Address(parse_numeric_aggregate(c, TRUE, 4, "DOT", 10, 8))
        ELSE IF is_identifier(token.t) \/ token.t = "NUMBER"
        THEN Lookup(parse_host_name(c, <<>>))
        ELSE Fatal(IF token.t \notin {"RBRACE", "LBRACE"} THEN skip_token(c) ELSE c,
                   "expecting IP address or hostname")

parse_config_data(expr, c, option) ==
    LET token == peek_token(c)
        c1 == skip_token(c)
        flag == IF token.val \in {"true", "on"} THEN <<createBool(TRUE)>>
                ELSE IF token.val \in {"false", "off"} THEN <<createBool(FALSE)>>
                ELSE IF token.val = "ignore" THEN <<Skipped(createNull)>>
                ELSE <<>>
        Number(n) ==
            IF n.st = "fatal" THEN Fatal(c1, n.err)
            ELSE Ok(c1, mapSet(expr, createInt(ntohl_bytes(n.buf)), "value"), FALSE)
        Short(n) ==
            IF n.st = "fatal" THEN Fatal(c1, n.err)
            ELSE Ok(c1, mapSet(expr, createInt(ntohs_bytes(n.buf)), "value"), FALSE)
        Byte(n) ==
            IF n.st = "fatal" THEN Fatal(c1, n.err)
            ELSE Ok(c1, mapSet(expr, createInt(ntohs_byte(n.buf[1], c.little_endian)),
                               "value"), FALSE)
        Address(data) ==
            IF data.st = "fatal" THEN data
            ELSE IF data.st = "false"
            THEN Fatal(data.c, "expecting IP address of hostname")
            ELSE Ok(data.c, mapSet(expr, data.node, "value"), FALSE)
    IN  IF token.t = "END_OF_FILE" THEN Fatal(c, "unexpected end of file")
        ELSE IF token.t = "SEMI" THEN Fatal(c, "empty config option")
        ELSE IF token.t = "COMMA" THEN Fatal(c, "multiple value config option")
        ELSE IF option.format = "t"
        THEN Ok(c1, mapSet(expr, createString(token.val), "value"), FALSE)
        ELSE IF option.format = "T" /\ token.t = "INFINITE"
        THEN Ok(c1, mapSet(expr, createInt(0 - 1), "value"), FALSE)
        ELSE IF option.format \in {"T", "L"}
        THEN IF token.t \notin {"NUMBER", "NUMBER_OR_NAME"}
             THEN Fatal(c1, "expecting number.")
             ELSE Number(convert_num(token.txt, 0, 32, c.little_endian))
        ELSE IF option.format = "I" THEN Address(parse_ip_addr_or_hostname(c))
        ELSE IF option.format \in {"S", "B"}
        THEN IF token.t \notin {"NUMBER", "NUMBER_OR_NAME"}
             THEN Fatal(c1, "expecting number.")
             ELSE IF option.format = "S"
             THEN Short(convert_num(token.txt, 0, 16, c.little_endian))
             ELSE Byte(convert_num(token.txt, 0, 8, c.little_endian))
        ELSE IF option.format = "f"
        THEN IF ~is_identifier(token.t) \/ flag = <<>>
             THEN Fatal(c1, "expecting boolean.")
             ELSE Ok(c1, mapSet(expr, flag[1], "value"), FALSE)
        ELSE Fatal(c, "Bad format in parse_config_data.")

\* the walk of config_valid_lifetime (parse.c 4079-4098): the frame it stops
\* at, whether a pool was crossed, whether the scope is unsupported
RECURSIVE LifetimeWalk(_, _, _)
LifetimeWalk(stack, where, pop_from_pool) ==
    IF where = 0
    THEN [where |-> 0, pop_from_pool |-> pop_from_pool, unsupported |-> FALSE]
    ELSE IF stack[where].kind = "PARAMETER"
    THEN LifetimeWalk(stack, where - 1, pop_from_pool)
    ELSE IF stack[where].kind \in {"ROOT_GROUP", "SHARED_NET_DECL", "SUBNET_DECL",
                                   "GROUP_DECL"}
    THEN [where |-> where, pop_from_pool |-> pop_from_pool, unsupported |-> FALSE]
    ELSE IF stack[where].kind = "POOL_DECL"
    THEN LifetimeWalk(stack, where - 1, TRUE)
    ELSE [where |-> where, pop_from_pool |-> pop_from_pool, unsupported |-> TRUE]

MovedComment == "/// valid-lifetime moved from an internal pool scope"

config_valid_lifetime_uncommented(config, c) ==
    LET w == LifetimeWalk(c.stack, Len(c.stack), FALSE)
        v0 == mapGet(config, "value")
        v1 == IF w.unsupported
              THEN Skipped(Commented(v0, "/// valid-lifetime in unsupported scope"))
              ELSE v0
        c1 == IF w.unsupported THEN Issue(c) ELSE c
    IN  [c1 EXCEPT !.stack[w.where].elem = mapSet(@, v1, "valid-lifetime")]

\* parse.c 4069-4106
config_valid_lifetime(config, c) ==
    LET w == LifetimeWalk(c.stack, Len(c.stack), FALSE)
        v0 == mapGet(config, "value")
        v1 == IF w.unsupported
              THEN Skipped(Commented(v0, "/// valid-lifetime in unsupported scope"))
              ELSE v0
        v2 == IF w.pop_from_pool THEN Commented(v1, MovedComment) ELSE v1
        c1 == IF w.unsupported THEN Issue(c) ELSE c
    IN  [c1 EXCEPT !.stack[w.where].elem = mapSet(@, v2, "valid-lifetime")]

\* the walk of config_file and config_sname (parse.c 4121-4134, 4158-4171):
\* host, class and group frames end it; the root group ends it with popped
\* set; every other kind is passed over
RECURSIVE BootWalk(_, _)
BootWalk(stack, where) ==
    IF where = 0 THEN [where |-> 0, popped |-> FALSE]
    ELSE IF stack[where].kind = "PARAMETER" THEN BootWalk(stack, where - 1)
    ELSE IF stack[where].kind \in {"HOST_DECL", "CLASS_DECL", "GROUP_DECL"}
    THEN [where |-> where, popped |-> FALSE]
    ELSE IF stack[where].kind = "ROOT_GROUP" THEN [where |-> where, popped |-> TRUE]
    ELSE BootWalk(stack, where - 1)

BootStore(config, c, key, comment) ==
    LET w == BootWalk(c.stack, Len(c.stack))
        v0 == mapGet(config, "value")
        v1 == IF w.popped THEN Skipped(Commented(v0, comment)) ELSE v0
        c1 == IF w.popped THEN Issue(c) ELSE c
    IN  Ok([c1 EXCEPT !.stack[w.where].elem = mapSet(@, v1, key)], createNull, FALSE)

\* parse.c 4108-4143
config_file(config, c) ==
    IF c.local_family # "AF_INET" THEN Fatal(c, "boot-file-name is DHCPv4 only")
    ELSE BootStore(config, c, "boot-file-name",
                   "/// boot-file-name was defined in an unsupported scope")

\* parse.c 4145-4180
config_sname(config, c) ==
    IF c.local_family # "AF_INET" THEN Fatal(c, "server-hostname is DHCPv4 only")
    ELSE BootStore(config, c, "server-hostname",
                   "/// server-hostname was defined in an unsupported scope")

\* the walk of config_next_server (parse.c 4195-4206)
RECURSIVE NextServerWalk(_, _, _)
NextServerWalk(stack, where, popped) ==
    IF where = 0 THEN [where |-> 0, popped |-> popped]
    ELSE IF stack[where].kind = "PARAMETER"
    THEN NextServerWalk(stack, where - 1, popped)
    ELSE IF stack[where].kind \in {"ROOT_GROUP", "HOST_DECL", "CLASS_DECL",
                                   "GROUP_DECL"}
    THEN [where |-> where, popped |-> popped]
    ELSE NextServerWalk(stack, where - 1, TRUE)

\* parse.c 4182-4213
config_next_server(config, c) ==
    LET w == NextServerWalk(c.stack, Len(c.stack), FALSE)
        v0 == mapGet(config, "value")
        v1 == IF w.popped
              THEN Commented(v0, "/// next-server moved from an internal unsupported scope")
              ELSE v0
    IN  IF c.local_family # "AF_INET" THEN Fatal(c, "next-server is DHCPv4 only")
        ELSE Ok([c EXCEPT !.stack[w.where].elem = mapSet(@, v1, "next-server")],
                createNull, FALSE)

\* parse.c 4239-4279
config_preferred_lifetime(config, c) ==
    LET w == LifetimeWalk(c.stack, Len(c.stack), FALSE)
        v0 == mapGet(config, "value")
        v1 == IF w.unsupported
              THEN Skipped(Commented(v0, "/// preferred-lifetime in unsupported scope"))
              ELSE v0
        v2 == IF w.pop_from_pool
              THEN Commented(v1, "/// preferred-lifetime moved from an internal pool scope")
              ELSE v1
        c1 == IF w.unsupported THEN Issue(c) ELSE c
    IN  IF c.local_family # "AF_INET6"
        THEN Fatal(c, "preferred-lifetime is DHCPv6 only")
        ELSE Ok([c1 EXCEPT !.stack[w.where].elem = mapSet(@, v2, "preferred-lifetime")],
                createNull, FALSE)

\* the frame a config statement is stored in (parse.c 3997-4002)
RECURSIVE ConfigFrame(_, _)
ConfigFrame(stack, where) ==
    IF where = 0 THEN 0
    ELSE IF stack[where].kind \in {"PARAMETER", "POOL_DECL"}
    THEN ConfigFrame(stack, where - 1)
    ELSE where

\* parse.c 3925-4067
parse_config_statement(c, option, op, hasResult) ==
    LET unknown == option.status = "kea_unknown"
        g0 == mapSet(mapSet(createMap, createString(option.name), "name"),
                     createInt(option.code), "code")
        g1 == IF unknown THEN Skipped(g0) ELSE g0
        g2 == IF op # "supersede_option_statement"
              THEN Commented(g1, "/// Kea does not support option data set variants")
              ELSE g1
        c0 == IF unknown THEN Issue(c) ELSE c
        token == peek_token(c0).t
        c1 == skip_token(c0)
        Expression(expr) ==
            IF expr.st = "fatal" THEN expr
            ELSE IF expr.st = "false"
            THEN IF ~expr.lose THEN Fatal(expr.c, "expecting a data expression.")
                 ELSE No(expr.c, FALSE)
            ELSE Ok(expr.c, mapSet(g2, expr.node, "value"), FALSE)
        Store(semi) ==
            IF semi.st # "ok" THEN semi
            ELSE IF hasResult
            THEN Ok(semi.c, mapSet(createMap, Skipped(semi.node), "config"), FALSE)
            ELSE IF option.status # "special"
            THEN Ok(PushInFrame(semi.c, ConfigFrame(semi.c.stack, Len(semi.c.stack)),
                                "config", semi.node, Skipped(createList)),
                    createNull, FALSE)
            ELSE IF ~mapContains(semi.node, "value")
            THEN Fatal(semi.c, "the NULL value is dereferenced")
            ELSE IF option.code = 1
            THEN Ok(config_valid_lifetime(semi.node, semi.c), createNull, FALSE)
            ELSE IF option.code = 15 THEN config_file(semi.node, semi.c)
            ELSE IF option.code = 16 THEN config_sname(semi.node, semi.c)
            ELSE IF option.code = 17 THEN config_next_server(semi.node, semi.c)
            ELSE IF option.code = 53 THEN config_preferred_lifetime(semi.node, semi.c)
            ELSE IF option.code = 18
            THEN Fatal(semi.c, "authoritative is a statement")
            ELSE Fatal(semi.c, "unsupported config option")
        Semi(parsed) ==
            IF parsed.st # "ok" THEN parsed
            ELSE Store(parse_semi(parsed.c, parsed.node, FALSE))
    IN  IF token = "SEMI" /\ option.format # "Z" THEN Semi(Ok(c1, g2, FALSE))
        ELSE IF token = "EQUAL"
        THEN Semi(Expression(parse_data_expression(c1, c.uninit)))
        ELSE Semi(parse_config_data(g2, c0, option))

(***************************************************************************)
(* parse_option_statement (parse.c 3668-3780).  hasResult tells whether    *)
(* the caller passed a result element.  The local lose is not initialized  *)
(* before parse_data_expression is given its address: what is read from it *)
(* when the callee did not write it is c.uninit, either value.             *)
(***************************************************************************)
parse_option_statement(c, option, op, hasResult) ==
    LET unknown == option.status = "kea_unknown"
        d0 == mapSet(mapSet(mapSet(createMap, createString(option.space), "space"),
                            createString(option.name), "name"),
                     createInt(option.code), "code")
        d1 == IF unknown THEN Skipped(d0) ELSE d0
        d2 == IF op # "supersede_option_statement"
              THEN Commented(d1, "/// Kea does not support option data set variants")
              ELSE d1
        c0 == IF unknown THEN Issue(c) ELSE c
        token == peek_token(c0).t
        c1 == skip_token(c0)
        d3 == mapSet(d2, createBool(FALSE), "csv-format")
        Stringify(node) ==
            IF node.type = "boolean"
            THEN createString(IF node.ival = 1 THEN "true" ELSE "false")
            ELSE IF node.type = "integer" THEN createData(Decimal(node.ival))
            ELSE node
        Expression(expr) ==
            IF expr.st = "fatal" THEN expr
            ELSE IF expr.st = "false"
            THEN IF ~expr.lose THEN Fatal(expr.c, "expecting a data expression.")
                 ELSE No(expr.c, FALSE)
            ELSE IF Stringify(expr.node).type = "string"
            THEN Ok(expr.c, mapSet(d3, Stringify(expr.node), "data"), FALSE)
            ELSE Ok(Issue(expr.c),
                    mapSet(Skipped(d3), Stringify(expr.node), "expression"), FALSE)
        Store(semi) ==
            IF semi.st # "ok" THEN semi
            ELSE IF hasResult
            THEN Ok(semi.c, mapSet(createMap, Skipped(semi.node), "option"), FALSE)
            ELSE Ok(PushInFrame(semi.c, OptionFrame(semi.c, Len(semi.c.stack)),
                                "option-data", semi.node, createList),
                    createNull, FALSE)
        Semi(parsed) ==
            IF parsed.st # "ok" THEN parsed
            ELSE Store(parse_semi(parsed.c, parsed.node, FALSE))
    IN  IF option.space = "server" THEN parse_config_statement(c, option, op, hasResult)
        ELSE IF token = "SEMI" /\ option.format # "Z" THEN Semi(Ok(c1, d2, FALSE))
        ELSE IF token = "EQUAL"
        THEN Semi(Expression(parse_data_expression(c1, c.uninit)))
        ELSE Semi(parse_option_data(d2, c0))

(***************************************************************************)
(* Executable statements (parse.c 1317-1786, 2011-2275).  The statements   *)
(* modelled are db-time-format, if, add, break, the option statements, on, *)
(* switch, case, default:, define, set, unset, eval, return, log,          *)
(* parse-vendor-option, config statements and the function call statement; *)
(* a token of any other kind the model uses takes the default case.        *)
(***************************************************************************)
StatementOp ==
    [SEND |-> "send_option_statement", SUPERSEDE |-> "supersede_option_statement",
     OPTION |-> "supersede_option_statement", DEFAULT |-> "default_option_statement",
     PREPEND |-> "prepend_option_statement", APPEND |-> "append_option_statement"]

RECURSIVE parse_executable_statement(_, _, _)
RECURSIVE parse_executable_statements(_, _, _, _)
RECURSIVE parse_if_statement(_, _)
RECURSIVE parse_on_statement(_, _)
RECURSIVE parse_switch_statement(_, _)

\* the loop that evens things up after a failed block (parse.c 2052-2056)
RECURSIVE EvenUp(_)
EvenUp(c) ==
    IF peek_token(c).t \in {"END_OF_FILE", "RBRACE"} THEN skip_token(c)
    ELSE EvenUp(skip_token(c))

\* parse.c 1317-1339; statements is the list built so far
parse_executable_statements(c, lose, case_context, statements) ==
    LET Statement(s) ==
            IF s.st = "fatal" THEN s
            ELSE IF s.st = "ok"
            THEN parse_executable_statements(s.c, s.lose, case_context,
                                             listPush(statements, s.node))
            ELSE IF ~s.lose THEN Ok(s.c, statements, FALSE)
            ELSE No(s.c, TRUE)
    IN  Statement(parse_executable_statement(c, lose, case_context))

\* an expression used as a statement (parse.c 1607-1643, 1763-1779)
ExpressionStatement(c, lose, context, key, msg) ==
    LET Expression(e) ==
            IF e.st = "fatal" THEN e
            ELSE IF e.st = "false"
            THEN IF ~e.lose THEN Fatal(e.c, msg) ELSE No(skip_to_semi(e.c), TRUE)
            ELSE parse_semi(e.c, mapSet(createMap, e.node, key), e.lose)
    IN  Expression(parse_expression(c, lose, context, <<>>, "expr_none"))

\* the argument names of a function definition (parse.c 1537-1555)
RECURSIVE DefineArguments(_, _)
DefineArguments(c, value) ==
    LET token == peek_token(c)
        c1 == skip_token(c)
        names == IF value = "" THEN token.val ELSE value \o ", " \o token.val
        after == peek_token(c1).t
    IN  IF token.t = "RPAREN" THEN Ok(c1, createString(value), FALSE)
        ELSE IF token.t \notin {"NAME", "NUMBER_OR_NAME"}
        THEN Fatal(c1, "expecting argument name")
        ELSE IF after = "COMMA" THEN DefineArguments(skip_token(c1), names)
        ELSE IF after # "RPAREN" THEN Fatal(skip_token(c1), "expecting right paren.")
        ELSE Ok(skip_token(c1), createString(names), FALSE)

\* define and set (parse.c 1516-1587)
DefineStatement(c, lose, case_context, key) ==
    LET name == peek_token(c)
        c1 == Issue(skip_token(c))
        token == peek_token(c1).t
        c2 == skip_token(c1)
        st0 == mapSet(Skipped(createMap), createString(name.val), "name")
        Body(body, arguments) ==
            IF body.st = "fatal" THEN body
            ELSE IF body.st = "false" THEN No(skip_to_semi(body.c), TRUE)
            ELSE IF peek_token(body.c).t # "RBRACE"
            THEN Fatal(skip_token(body.c), "expecting rigt brace.")
            ELSE Ok(skip_token(body.c),
                    mapSet(createMap,
                           mapSet(mapSet(st0, arguments, "arguments"), body.node,
                                  "function-body"),
                           key),
                    body.lose)
        Arguments(args) ==
            IF args.st = "fatal" THEN args
            ELSE IF peek_token(args.c).t # "LBRACE"
            THEN Fatal(skip_token(args.c), "expecting left brace.")
            ELSE Body(parse_executable_statements(skip_token(args.c), lose,
                                                  case_context, createList),
                      args.node)
        Value(value) ==
            IF value.st = "fatal" THEN value
            ELSE IF value.st = "false"
            THEN IF ~value.lose THEN Fatal(value.c, "expecting expression.")
                 ELSE No(skip_to_semi(value.c), TRUE)
            ELSE parse_semi(value.c,
                            mapSet(createMap, mapSet(st0, value.node, "value"), key),
                            value.lose)
    IN  IF name.t \notin {"NAME", "NUMBER_OR_NAME"}
        THEN Fatal(c1, "can't be a variable name")
        ELSE IF token = "LPAREN" THEN Arguments(DefineArguments(c2, ""))
        ELSE IF token # "EQUAL" THEN Fatal(c2, "expecting '=' in statement.")
        ELSE Value(parse_expression(c2, lose, "context_any", <<>>, "expr_none"))

\* parse.c 1649-1697
LogStatement(c, lose) ==
    LET c1 == Issue(c)
        c2 == skip_token(c1)
        pri == peek_token(c2)
        given == pri.t \in {"FATAL", "ERROR", "TOKEN_DEBUG", "INFO"}
        c3 == IF given THEN skip_token(skip_token(c2)) ELSE c2
        st0 == mapSet(Skipped(createMap),
                      createString(IF given THEN pri.val ELSE "DEBUG"), "priority")
        Expression(expr) ==
            IF expr.st = "fatal" THEN expr
            ELSE IF expr.st = "false" THEN No(skip_to_semi(expr.c), TRUE)
            ELSE IF peek_token(expr.c).t # "RPAREN"
            THEN Fatal(skip_token(expr.c), "right parenthesis expected.")
            ELSE IF peek_token(skip_token(expr.c)).t # "SEMI"
            THEN Fatal(skip_token(skip_token(expr.c)), "semicolon expected.")
            ELSE Ok(skip_token(skip_token(expr.c)), mapSet(createMap, st0, "log"),
                    expr.lose)
    IN  IF peek_token(c1).t # "LPAREN" THEN Fatal(c2, "left parenthesis expected.")
        ELSE IF given /\ peek_token(skip_token(c2)).t # "COMMA"
        THEN Fatal(c3, "comma expected.")
        ELSE Expression(parse_data_expression(c3, lose))

\* parse.c 2139-2167
parse_case_statement(c, lose, case_context) ==
    LET Label(e) ==
            IF e.st = "fatal" THEN e
            ELSE IF e.st = "false"
            THEN IF ~e.lose THEN Fatal(e.c, "expecting data or numeric expression.")
                 ELSE No(skip_to_semi(e.c), TRUE)
            ELSE IF peek_token(e.c).t # "COLON"
            THEN Fatal(skip_token(e.c), "colon expected.")
            ELSE Ok(skip_token(e.c), mapSet(createMap, e.node, "case"), e.lose)
    IN  Label(parse_expression(c, lose, case_context, <<>>, "expr_none"))

\* parse.c 2077-2132
parse_switch_statement(c, lose) ==
    LET c1 == Issue(c)
        c2 == skip_token(c1)
        Body(body, condition) ==
            IF body.st = "fatal" THEN body
            ELSE IF body.st = "false" THEN No(skip_to_rbrace(body.c, 1), TRUE)
            ELSE IF peek_token(body.c).t # "RBRACE"
            THEN Fatal(skip_token(body.c), "right brace expected.")
            ELSE Ok(skip_token(body.c),
                    mapSet(createMap,
                           mapSet(mapSet(Skipped(createMap), condition, "condition"),
                                  body.node, "body"),
                           "switch"),
                    body.lose)
        Condition(cond) ==
            IF cond.st = "fatal" THEN cond
            ELSE IF cond.st = "false"
            THEN IF ~cond.lose
                 THEN Fatal(cond.c, "expecting data or numeric expression.")
                 ELSE No(cond.c, TRUE)
            ELSE IF peek_token(cond.c).t # "RPAREN"
            THEN Fatal(skip_token(cond.c), "right paren expected.")
            ELSE IF peek_token(skip_token(cond.c)).t # "LBRACE"
            THEN Fatal(skip_token(skip_token(cond.c)), "left brace expected.")
            ELSE Body(parse_executable_statements(
                          skip_token(skip_token(cond.c)), cond.lose,
                          IF is_data_expression(cond.node) THEN "context_data"
                          ELSE "context_numeric",
                          createList),
                      cond.node)
    IN  IF peek_token(c1).t # "LPAREN" THEN Fatal(c2, "expecting left brace.")
        ELSE Condition(parse_expression(c2, lose, "context_data_or_numeric", <<>>,
                                        "expr_none"))

\* the lease events of an on statement (parse.c 2029-2046): the parse state
\* after the token that follows the last event, and that token
RECURSIVE OnEvents(_, _)
OnEvents(c, cond) ==
    LET event == peek_token(c)
        c1 == skip_token(c)
        token == peek_token(c1).t
        c2 == skip_token(c1)
    IN  IF event.t \notin {"EXPIRY", "COMMIT", "RELEASE", "TRANSMISSION"}
        THEN [st |-> "fatal", c |-> c1, cond |-> cond, token |-> token]
        ELSE IF token = "OR" THEN OnEvents(c2, cond \o event.val \o " or ")
        ELSE [st |-> "ok", c |-> c2, cond |-> cond \o event.val, token |-> token]

\* parse.c 2011-2070
parse_on_statement(c, lose) ==
    LET Body(body, st0) ==
            IF body.st = "fatal" THEN body
            ELSE IF body.st = "false" THEN No(EvenUp(body.c), TRUE)
            ELSE IF peek_token(body.c).t # "RBRACE"
            THEN Fatal(skip_token(body.c), "right brace expected.")
            ELSE Ok(skip_token(body.c),
                    mapSet(createMap, mapSet(st0, body.node, "body"), "on"),
                    body.lose)
        Events(ev, st0) ==
            IF ev.st = "fatal" THEN Fatal(ev.c, "expecting a lease event type")
            ELSE IF ev.token = "SEMI" THEN Ok(ev.c, mapSet(createMap, st0, "on"), lose)
            ELSE IF ev.token # "LBRACE" THEN Fatal(ev.c, "left brace expected.")
            ELSE Body(parse_executable_statements(ev.c, lose, "context_any",
                                                  createList),
                      st0)
        Condition(ev) ==
            Events(ev, mapSet(Skipped(createMap), createString(ev.cond), "condition"))
    IN  Condition(OnEvents(Issue(c), ""))

\* the else part of an if statement (parse.c 2236-2273); st0 is the
\* statement with its condition and its then branch
ElsePart(c, lose, st0) ==
    LET token == peek_token(c).t
        c1 == skip_token(c)
        second == peek_token(c1).t
        c2 == skip_token(c1)
        ElseIf(elseif) ==
            IF elseif.st = "fatal" THEN elseif
            ELSE IF elseif.st = "false"
            THEN IF ~elseif.lose
                 THEN Fatal(elseif.c, IF token = "ELSIF" THEN "expecting conditional."
                                      ELSE "expecting if statement")
                 ELSE No(elseif.c, TRUE)
            ELSE Ok(elseif.c, mapSet(createMap, mapSet(st0, elseif.node, "else"), "if"),
                    elseif.lose)
        Else(branch) ==
            IF branch.st = "fatal" THEN branch
            ELSE IF branch.st = "false" THEN No(branch.c, branch.lose)
            ELSE IF peek_token(branch.c).t # "RBRACE"
            THEN Fatal(skip_token(branch.c), "right brace expected.")
            ELSE Ok(skip_token(branch.c),
                    mapSet(createMap, mapSet(st0, branch.node, "else"), "if"),
                    branch.lose)
    IN  IF token = "ELSIF" \/ (token = "ELSE" /\ second = "IF")
        THEN ElseIf(parse_if_statement(IF token = "ELSIF" THEN c1 ELSE c2, lose))
        ELSE IF token = "ELSE"
        THEN IF second # "LBRACE" THEN Fatal(c1, "left brace or if expected.")
             ELSE Else(parse_executable_statements(c2, lose, "context_any", createList))
        ELSE Ok(c, mapSet(createMap, st0, "if"), lose)

\* parse.c 2179-2275
parse_if_statement(c, lose) ==
    LET c0 == Issue(c)
        parenp == peek_token(c0).t = "LPAREN"
        Then(then, condition) ==
            IF then.st = "fatal" THEN then
            ELSE IF then.st = "false" THEN No(EvenUp(then.c), TRUE)
            ELSE IF peek_token(then.c).t # "RBRACE"
            THEN Fatal(skip_token(then.c), "right brace expected.")
            ELSE ElsePart(skip_token(then.c), then.lose,
                          mapSet(mapSet(Skipped(createMap), condition, "condition"),
                                 then.node, "then"))
        Braces(cond, c1) ==
            IF peek_token(c1).t # "LBRACE"
            THEN Fatal(skip_token(c1), "left brace expected.")
            ELSE Then(parse_executable_statements(skip_token(c1), cond.lose,
                                                  "context_any", createList),
                      cond.node)
        Condition(cond) ==
            IF cond.st = "fatal" THEN cond
            ELSE IF cond.st = "false"
            THEN IF ~cond.lose THEN Fatal(cond.c, "boolean expression expected.")
                 ELSE No(cond.c, TRUE)
            ELSE IF parenp /\ peek_token(cond.c).t # "RPAREN"
            THEN Fatal(skip_token(cond.c), "expecting right paren.")
            ELSE Braces(cond, IF parenp THEN skip_token(cond.c) ELSE cond.c)
    IN  Condition(parse_boolean_expression(IF parenp THEN skip_token(c0) ELSE c0,
                                           lose))

\* parse.c 1341-1786
parse_executable_statement(c, lose, case_context) ==
    LET token == peek_token(c)
        c1 == skip_token(c)
        second == peek_token(c1)
        c2 == skip_token(c1)
        server == option_lookup_name(c, "server", token.val)
        \* the callee has its own lose: the caller's is left as it was
        Returned(r) == [r EXCEPT !.lose = IF r.st = "fatal" THEN FALSE ELSE lose]
        Named(name) ==
            IF name.st = "fatal" THEN Fatal(name.c, name.err)
            ELSE Returned(parse_option_statement(name.c, name.option,
                                                 StatementOp[token.t], TRUE))
        Config(config) ==
            IF config.st = "ok" THEN Ok(config.c, Skipped(config.node), lose)
            ELSE Returned(config)
    IN  CASE token.t = "DB_TIME_FORMAT" ->
               IF second.t \notin {"DEFAULT", "LOCAL"}
               THEN Fatal(c2, "Expecting 'local' or 'default'.")
               ELSE IF peek_token(c2).t # "SEMI"
               THEN Fatal(skip_token(c2), "Expecting a semicolon.")
               ELSE Ok(Issue(skip_token(c2)),
                       mapSet(createMap, Skipped(createString(second.val)),
                              "db-time-format"),
                       lose)
          [] token.t = "IF" -> parse_if_statement(c1, lose)
          [] token.t = "TOKEN_ADD" ->
               IF second.t # "STRING" THEN Fatal(c2, "expecting class name.")
               ELSE parse_semi(Issue(c2),
                               mapSet(createMap, Skipped(createString(second.val)),
                                      "add-class"),
                               lose)
          [] token.t = "BREAK" ->
               parse_semi(Issue(c1), mapSet(createMap, Skipped(createNull), "break"),
                          lose)
          [] token.t = "DEFAULT" /\ second.t = "COLON" ->
               IF case_context = "context_any"
               THEN Fatal(c2, "switch default statement in inappropriate scope.")
               ELSE Ok(Issue(c2), mapSet(createMap, Skipped(createNull), "default"),
                       lose)
          [] token.t \in DOMAIN StatementOp
             /\ ~(token.t = "DEFAULT" /\ second.t = "COLON") ->
               Named(parse_option_name(c1, FALSE))
          [] token.t = "ON" -> parse_on_statement(c1, lose)
          [] token.t = "SWITCH" -> parse_switch_statement(c1, lose)
          [] token.t = "CASE" ->
               IF case_context = "context_any"
               THEN Fatal(c1, "case statement in inappropriate scope.")
               ELSE parse_case_statement(c1, lose, case_context)
          [] token.t = "DEFINE" -> DefineStatement(c1, lose, case_context, "define")
          [] token.t = "TOKEN_SET" -> DefineStatement(c1, lose, case_context, "set")
          [] token.t = "UNSET" ->
               IF second.t \notin {"NAME", "NUMBER_OR_NAME"}
               THEN Fatal(c2, "can't be a variable name")
               ELSE parse_semi(Issue(c2),
                               mapSet(createMap,
                                      mapSet(Skipped(createMap),
                                             createString(second.val), "name"),
                                      "unset"),
                               lose)
          [] token.t = "EVAL" ->
               ExpressionStatement(c1, lose, "context_data", "eval",
                                   "expecting data expression.")
          [] token.t = "RETURN" ->
               ExpressionStatement(c1, lose, "context_data", "return",
                                   "expecting data expression.")
          [] token.t = "LOG" -> LogStatement(c1, lose)
          [] token.t = "PARSE_VENDOR_OPT" ->
               parse_semi(Issue(c1),
                          mapSet(createMap, Skipped(createNull), "parse-vendor-option"),
                          lose)
          [] OTHER ->
               IF is_identifier(token.t) /\ server # {}
               THEN Config(parse_config_statement(Issue(c1), CHOOSE o \in server : TRUE,
                                                  "supersede_option_statement", TRUE))
               ELSE IF token.t \in {"NUMBER_OR_NAME", "NAME"}
               THEN ExpressionStatement(c, lose, "context_data", "eval",
                                        "expecting function call.")
               ELSE No(c, FALSE)

(***************************************************************************)
(* The statement parser as a state machine: one call of                    *)
(* parse_executable_statement, or of parse_executable_statements, at the   *)
(* start of a token stream, with *lose false on entry.  A stream is a      *)
(* simple statement, or a compound statement whose blocks hold up to       *)
(* MaxBody simple statements, or one of the streams listed one by one.     *)
(***************************************************************************)
MaxBody == 2

Name(n) == Token("NAME", n, <<>>)

String(s) == Token("STRING", s, <<>>)

Known == <<Tok("KNOWN")>>

OptionStatements ==
    {<<Tok("OPTION"), Name("host-name")>> \o rest :
        rest \in {<<Tok("EQUAL"), Tok("SEMI")>>,
                  <<Tok("EQUAL"), String("s"), Tok("SEMI")>>,
                  <<Tok("EQUAL"), Tok("KNOWN"), Tok("SEMI")>>,
                  <<String("s"), Tok("COMMA"), Token("ON", "on", <<>>), Tok("SEMI")>>,
                  <<Tok("SEMI")>>}}

BodyStatements ==
    {<<Tok("BREAK"), Tok("SEMI")>>,
     <<Tok("LOG"), Tok("LPAREN"), String("s"), Tok("RPAREN"), Tok("SEMI")>>,
     <<Tok("LOG"), Tok("LPAREN"), Tok("RPAREN"), Tok("SEMI")>>,
     <<Tok("OPTION"), Name("host-name"), Tok("EQUAL"), Tok("SEMI")>>}

\* a well-formed occurrence of each soft incompatibility, by its key
SoftStatements ==
    [k \in {"db-time-format", "add-class", "break", "unset", "parse-vendor-option"} |->
       CASE k = "db-time-format" ->
              {<<Tok("DB_TIME_FORMAT"), Token(t, v, <<>>), Tok("SEMI")>> :
                  <<t, v>> \in {<<"DEFAULT", "default">>, <<"LOCAL", "local">>}}
         [] k = "add-class" -> {<<Tok("TOKEN_ADD"), String("s"), Tok("SEMI")>>}
         [] k = "break" -> {<<Tok("BREAK"), Tok("SEMI")>>}
         [] k = "unset" -> {<<Tok("UNSET"), Name("a"), Tok("SEMI")>>}
         [] k = "parse-vendor-option" -> {<<Tok("PARSE_VENDOR_OPT"), Tok("SEMI")>>}]

SimpleStatements ==
    BodyStatements \cup OptionStatements
    \cup UNION {SoftStatements[k] : k \in DOMAIN SoftStatements}
    \cup {<<Tok("DB_TIME_FORMAT"), Tok("SEMI")>>,
          <<Tok("TOKEN_ADD"), Name("a"), Tok("SEMI")>>,
          <<Tok("PARSE_VENDOR_OPT"), Tok("BREAK")>>}
    \cup {<<Tok("EVAL"), String("s"), Tok("SEMI")>>,
          <<Tok("RETURN"), Tok("SEMI")>>,
          <<Tok("TOKEN_SET"), Name("a"), Tok("EQUAL"), Num(1), Tok("SEMI")>>,
          <<Tok("UNSET"), Name("a"), Tok("SEMI")>>,
          <<Name("f"), Tok("LPAREN"), String("s"), Tok("RPAREN"), Tok("SEMI")>>,
          <<Name("max-lease-time"), Num(1), Tok("SEMI")>>,
          <<Tok("SEND"), Name("pad-option"), Num(1), Tok("SEMI")>>,
          <<Tok("OPTION"), Name("server"), Tok("DOT"), Name("max-lease-time"),
            Tok("EQUAL"), Tok("SEMI")>>,
          <<Tok("DEFAULT"), Tok("COLON")>>,
          <<Tok("CASE"), Num(1), Tok("COLON")>>,
          <<Tok("SEMI")>>, <<Tok("RBRACE")>>, <<>>}

RECURSIVE Bodies(_)
Bodies(n) ==
    IF n = 0 THEN {<<>>}
    ELSE Bodies(n - 1) \cup {b \o s : b \in Bodies(n - 1), s \in BodyStatements}

Block(b) == <<Tok("LBRACE")>> \o b \o <<Tok("RBRACE")>>

SwitchOperands ==
    {<<Tok("LEASE_TIME")>>, <<String("s")>>, Known, <<Name("a")>>, <<Num(1)>>}

CompoundStatements ==
    {<<Tok("IF")>> \o Known \o Block(b) : b \in Bodies(MaxBody)}
    \cup {<<Tok("IF")>> \o Known \o Block(b) \o <<Tok("ELSE")>> \o Block(e) :
            b \in Bodies(1), e \in Bodies(MaxBody)}
    \cup {<<Tok("IF")>> \o Known \o Block(<<>>) \o e \o Known \o Block(b) :
            e \in {<<Tok("ELSIF")>>, <<Tok("ELSE"), Tok("IF")>>},
            b \in Bodies(MaxBody)}
    \cup {<<Tok("ON"), Token("COMMIT", "commit", <<>>)>> \o Block(b) :
            b \in Bodies(MaxBody)}
    \cup {<<Tok("DEFINE"), Name("f"), Tok("LPAREN"), Name("a"), Tok("RPAREN")>>
            \o Block(b) : b \in Bodies(MaxBody)}
    \cup {<<Tok("SWITCH"), Tok("LPAREN")>> \o x \o <<Tok("RPAREN"), Tok("LBRACE"),
            Tok("CASE")>> \o l \o <<Tok("COLON")>> \o b \o <<Tok("RBRACE")>> :
            x \in SwitchOperands, l \in SwitchOperands, b \in Bodies(1)}

\* if / elsif / else chains: the conditions are a boolean keyword, a variable
\* reference, an equality, a function call and a quoted string
IfConditions ==
    {Known, <<Name("a")>>, <<Name("a"), Tok("EQUAL"), String("x")>>,
     <<Name("f"), Tok("LPAREN"), Tok("RPAREN")>>, <<String("s")>>}

FinalElse == {<<>>} \cup {<<Tok("ELSE")>> \o Block(b) : b \in Bodies(1)}

ElsifKeywords == {<<Tok("ELSIF")>>, <<Tok("ELSE"), Tok("IF")>>}

IfChains ==
    {<<Tok("IF")>> \o c1 \o Block(<<>>) \o e \o c2 \o Block(<<>>) \o tail :
        c1 \in IfConditions, c2 \in IfConditions, e \in ElsifKeywords,
        tail \in FinalElse}
    \cup {<<Tok("IF"), Tok("LPAREN"), Name("a"), Tok("EQUAL"), String("x"),
            Tok("RPAREN")>> \o Block(<<>>)
            \o <<Tok("ELSIF"), Tok("LPAREN"), Name("b"), Tok("EQUAL"), String("y"),
                 Tok("RPAREN")>> \o Block(<<>>) \o <<Tok("ELSE")>> \o Block(<<>>)}

OtherStatements ==
    {<<Tok("IF")>> \o Known
       \o Block(<<Tok("LOG"), Tok("LPAREN"), Tok("RPAREN"), Tok("SEMI"), Tok("IF")>>
                \o Known \o Block(<<>>)),
     <<Tok("IF"), Tok("LPAREN")>> \o Known \o <<Tok("RPAREN")>> \o Block(<<>>),
     <<Tok("ON"), Token("EXPIRY", "expiry", <<>>), Tok("OR"),
       Token("RELEASE", "release", <<>>), Tok("SEMI")>>,
     <<Tok("SWITCH"), Tok("LPAREN"), String("s"), Tok("RPAREN"), Tok("LBRACE"),
       Tok("DEFAULT"), Tok("COLON"), Tok("LOG"), Tok("LPAREN"), Tok("RPAREN"),
       Tok("SEMI"), Tok("LBRACE"), Tok("RBRACE"), Tok("RBRACE")>>,
     <<Tok("LOG"), Tok("LPAREN"), Token("INFO", "info", <<>>), Tok("COMMA"),
       String("s"), Tok("RPAREN"), Tok("SEMI")>>}

\* every stream is followed by one more statement
StatementStreams ==
    {s \o <<Tok("BREAK"), Tok("SEMI")>> :
        s \in SimpleStatements \cup CompoundStatements \cup IfChains
              \cup OtherStatements}

InitStmt ==
    /\ num = NumIdle
    /\ cfile \in {[Cfile(s) EXCEPT !.options = Options, !.uninit = u] :
                    s \in StatementStreams, u \in BOOLEAN}
    /\ out = [called |-> "none", context |-> "none", res |-> NoResult]
    /\ decl = DeclIdle

ParseExecutableStatement ==
    /\ out.called = "none"
    /\ out' = [called |-> "parse_executable_statement", context |-> "context_any",
               res |-> parse_executable_statement(cfile, FALSE, "context_any")]
    /\ cfile' = out'.res.c
    /\ UNCHANGED <<num, decl>>

ParseExecutableStatements ==
    /\ out.called = "none"
    /\ \E case_context \in {"context_any", "context_data", "context_numeric"} :
         out' = [called |-> "parse_executable_statements", context |-> case_context,
                 res |-> parse_executable_statements(cfile, FALSE, case_context,
                                                     createList)]
    /\ cfile' = out'.res.c
    /\ UNCHANGED <<num, decl>>

NextStmt == ParseExecutableStatement \/ ParseExecutableStatements

SpecStmt == InitStmt /\ [][NextStmt]_vars

(***************************************************************************)
(* C7.  An option statement `option <name> = ;` does not abort the         *)
(* translation: parse_option_statement skips forward to and including the  *)
(* next semicolon and returns, so that the statements following it are     *)
(* still parsed.                                                           *)
(***************************************************************************)
MissingOptionValue(toks) ==
    /\ Len(toks) >= 4
    /\ toks[1].t = "OPTION" /\ toks[2].t = "NAME" /\ toks[3].t = "EQUAL"
    /\ toks[4].t = "SEMI"

C7_MissingValueResynchronises ==
    MissingOptionValue(cfile.toks) =>
        /\ out.res.st # "fatal"
        /\ out.called = "parse_executable_statement" => cfile.pos = 5
        /\ out.called = "parse_executable_statements" =>
              \E i \in 1..Len(out.res.node.vals) :
                  mapContains(out.res.node.vals[i], "break")

(***************************************************************************)
(* C8.  parse_executable_statement returns true, or false with lose false  *)
(* (not a statement), or false with lose true (malformed); whenever it     *)
(* reports malformed, the tokens up to the statement-terminating semicolon *)
(* or the matching closing brace have been skipped: what was consumed ends *)
(* with a semicolon or a closing brace (or at the end of the file) and     *)
(* every brace opened in it is closed.                                     *)
(***************************************************************************)
RECURSIVE BraceDepth(_, _)
BraceDepth(toks, n) ==
    IF n = 0 THEN 0
    ELSE BraceDepth(toks, n - 1)
         + (IF toks[n].t = "LBRACE" THEN 1 ELSE IF toks[n].t = "RBRACE" THEN -1 ELSE 0)

Resynchronised(c) ==
    \/ c.pos > Len(c.toks)
    \/ /\ c.pos > 1
       /\ c.toks[c.pos - 1].t \in {"SEMI", "RBRACE"}
       /\ BraceDepth(c.toks, c.pos - 1) = 0

C8_MalformedSkipsToTerminator ==
    out.called = "parse_executable_statement" =>
        /\ out.res.st \in {"ok", "false", "fatal"}
        /\ (out.res.st = "false" /\ out.res.lose) => Resynchronised(cfile)

(***************************************************************************)
(* C10.  In an accepted switch the condition does not classify Boolean,    *)
(* and when it classifies Data (respectively Numeric) every case label of  *)
(* its body classifies Data (respectively Numeric) or Any.                 *)
(***************************************************************************)
C10_CaseLabelsShareSwitchContext ==
    (/\ out.called = "parse_executable_statement"
     /\ out.res.st = "ok"
     /\ mapContains(out.res.node, "switch"))
    => LET switch == mapGet(out.res.node, "switch")
           context == expression_context(mapGet(switch, "condition"))
           body == mapGet(switch, "body").vals
       IN  /\ context # "context_boolean"
           /\ context \in {"context_data", "context_numeric"} =>
                \A i \in 1..Len(body) :
                    mapContains(body[i], "case") =>
                        expression_context(mapGet(body[i], "case"))
                            \in {context, "context_any"}

(***************************************************************************)
(* C12.  A well-formed db-time-format, add, break, unset or                *)
(* parse-vendor-option statement is not fatal, and the node it produces    *)
(* has the three marks: the skip flag, an explanatory comment, and the     *)
(* issue counter one higher than before; the statement that follows it is  *)
(* parsed as well.                                                         *)
(***************************************************************************)
C12_SoftIncompatibilityMarks ==
    \A k \in DOMAIN SoftStatements :
        (\E s \in SoftStatements[k] : cfile.toks = s \o <<Tok("BREAK"), Tok("SEMI")>>)
        => /\ out.called = "parse_executable_statement" =>
                /\ out.res.st = "ok"
                /\ mapContains(out.res.node, k)
                /\ mapGet(out.res.node, k).skip
                /\ mapGet(out.res.node, k).comments # <<>>
                /\ cfile.issue_counter = 1
           /\ out.called = "parse_executable_statements" =>
                /\ out.res.st = "ok"
                /\ Len(out.res.node.vals) = 2
                /\ mapContains(out.res.node.vals[2], "break")

(***************************************************************************)
(* An if node is a map with the one key "if" whose value holds the         *)
(* "condition" and the "then" list.  A chain is a stream that starts with  *)
(* `if` and has an `elsif` or `else if` in it.                             *)
(***************************************************************************)
IfBody(node) == mapGet(node, "if")

IsIfNode(node) ==
    /\ node.type = "map"
    /\ node.keys = <<"if">>
    /\ IfBody(node).type = "map"
    /\ mapContains(IfBody(node), "condition")
    /\ mapContains(IfBody(node), "then")
    /\ mapGet(IfBody(node), "then").type = "list"

HasElsif(toks) ==
    \E i \in 1..Len(toks) - 1 :
        toks[i].t = "ELSIF" \/ (toks[i].t = "ELSE" /\ toks[i + 1].t = "IF")

HasFinalElse(toks) ==
    \E i \in 1..Len(toks) - 1 : toks[i].t = "ELSE" /\ toks[i + 1].t = "LBRACE"

ChainParsed ==
    /\ out.called = "parse_executable_statement"
    /\ cfile.toks[1].t = "IF"
    /\ HasElsif(cfile.toks)
    /\ out.res.st = "ok"

\* the shape of the tree of a chain: the root if node, whose "else" is the if
\* node of the elsif, whose "else" is the list of the final else block
ChainShape(root) ==
    /\ IsIfNode(root)
    /\ mapContains(IfBody(root), "else")
    /\ IsIfNode(mapGet(IfBody(root), "else"))
    /\ HasFinalElse(cfile.toks)
       => LET elsif == IfBody(mapGet(IfBody(root), "else"))
          IN  mapContains(elsif, "else") /\ mapGet(elsif, "else").type = "list"
    /\ ~HasFinalElse(cfile.toks)
       => ~mapContains(IfBody(mapGet(IfBody(root), "else")), "else")

ChainConditions(root) ==
    {mapGet(IfBody(root), "condition"),
     mapGet(IfBody(mapGet(IfBody(root), "else")), "condition")}

(***************************************************************************)
(* C19 as stated.  Parsing an if / elsif / else chain yields a single root *)
(* "if" node with "condition", "then" and "else"; the "else" child is      *)
(* itself the if node of the elsif (holding that elsif's condition,        *)
(* then-block and the final else-block) with no wrapper level between      *)
(* them, and each accepted condition classifies Boolean.                   *)
(***************************************************************************)
C19_ChainConditionsBoolean ==
    ChainParsed =>
        /\ ChainShape(out.res.node)
        /\ \A cond \in ChainConditions(out.res.node) :
              expression_context(cond) = "context_boolean"

(***************************************************************************)
(* C19 as the code has it.  The tree of an if / elsif / else chain is the  *)
(* root if node whose "else" child is the if node of the elsif, and each   *)
(* accepted condition classifies Boolean or is a variable reference or a   *)
(* function call, which parse_boolean_expression lets through unclassified.*)
(***************************************************************************)
C19_ChainConditionsBooleanOrReference ==
    ChainParsed =>
        /\ ChainShape(out.res.node)
        /\ \A cond \in ChainConditions(out.res.node) :
              expression_context(cond) = "context_boolean" \/ IsReference(cond)

C19_Witness ==
    /\ ChainParsed
    /\ HasFinalElse(cfile.toks)
    /\ cfile.toks[2].t = "LPAREN"
    /\ mapContains(mapGet(IfBody(out.res.node), "condition"), "equal")
    /\ mapContains(mapGet(IfBody(mapGet(IfBody(out.res.node), "else")),
                          "condition"), "equal")
    /\ IsIfNode(mapGet(IfBody(out.res.node), "else"))

(***************************************************************************)
(* Declaration-level statements as a state machine: one call of            *)
(* parse_config_statement or parse_option_statement without a result       *)
(* element, after the option name, so that the value is stored in the      *)
(* declaration stack.  The stack is the root group and up to MaxDepth      *)
(* nested declarations with empty elements; decl remembers the stack       *)
(* before the call and the option.                                         *)
(***************************************************************************)
MaxDepth == 3

Kinds ==
    {"PARAMETER", "SHARED_NET_DECL", "SUBNET_DECL", "GROUP_DECL", "POOL_DECL",
     "HOST_DECL", "CLASS_DECL"}

RECURSIVE Stacks(_)
Stacks(n) ==
    IF n = 0 THEN {<<Frame("ROOT_GROUP")>>}
    ELSE Stacks(n - 1) \cup {Append(s, Frame(k)) : s \in Stacks(n - 1), k \in Kinds}

ValueStreams ==
    {<<Num(1), Tok("SEMI")>>, <<Token("INFINITE", "infinite", <<>>), Tok("SEMI")>>,
     <<Tok("EQUAL"), String("s"), Tok("SEMI")>>, <<Tok("EQUAL"), Tok("SEMI")>>,
     <<Token("ON", "on", <<>>), Tok("SEMI")>>, <<Tok("SEMI"), Tok("SEMI")>>,
     <<Num(1)>>}

NoOption == Option("", "", 0, "", "")

InitConfig ==
    /\ num = NumIdle
    /\ cfile \in {[Cfile(s) EXCEPT !.options = Options, !.stack = st,
                                   !.local_family = f, !.uninit = u] :
                    s \in ValueStreams, st \in Stacks(MaxDepth),
                    f \in {"AF_INET", "AF_INET6"}, u \in BOOLEAN}
    /\ out = [called |-> "none", context |-> "none", res |-> NoResult]
    /\ decl = [stack |-> cfile.stack, option |-> NoOption]

StatementOps == {StatementOp[t] : t \in DOMAIN StatementOp}

ParseConfigStatement ==
    /\ out.called = "none"
    /\ \E option \in {o \in cfile.options : o.space = "server"}, op \in StatementOps :
         /\ out' = [called |-> "parse_config_statement", context |-> op,
                    res |-> parse_config_statement(cfile, option, op, FALSE)]
         /\ decl' = [decl EXCEPT !.option = option]
    /\ cfile' = out'.res.c
    /\ UNCHANGED num

ParseOptionStatement ==
    /\ out.called = "none"
    /\ \E option \in {o \in cfile.options : o.space # "server"}, op \in StatementOps :
         /\ out' = [called |-> "parse_option_statement", context |-> op,
                    res |-> parse_option_statement(cfile, option, op, FALSE)]
         /\ decl' = [decl EXCEPT !.option = option]
    /\ cfile' = out'.res.c
    /\ UNCHANGED num

NextConfig == ParseConfigStatement \/ ParseOptionStatement

SpecConfig == InitConfig /\ [][NextConfig]_vars

(***************************************************************************)
(* C9.  For the lease-time parameter: if the innermost non-PARAMETER frame *)
(* is a POOL frame nested in a SUBNET frame, the value is stored under     *)
(* "valid-lifetime" in the SUBNET frame with the 'moved from an internal   *)
(* pool scope' comment and is not flagged skip; if it is a HOST frame, the *)
(* value is stored in that HOST frame, flagged skip, with the 'unsupported *)
(* scope' comment, and the issue counter grows by one.  No other frame is  *)
(* modified.                                                               *)
(***************************************************************************)
RECURSIVE Innermost(_, _)
Innermost(stack, where) ==
    IF where = 0 THEN 0
    ELSE IF stack[where].kind = "PARAMETER" THEN Innermost(stack, where - 1)
    ELSE where

LifetimeValues == {createInt(1), createInt(0 - 1), createString("s")}

StoredIn(where, comment, skip) ==
    /\ Len(cfile.stack) = Len(decl.stack)
    /\ \A k \in 1..Len(decl.stack) : k # where => cfile.stack[k] = decl.stack[k]
    /\ cfile.stack[where].kind = decl.stack[where].kind
    /\ \E v \in LifetimeValues :
         cfile.stack[where].elem =
             mapSet(decl.stack[where].elem,
                    [v EXCEPT !.comments = <<comment>>, !.skip = skip],
                    "valid-lifetime")

LifetimeStored ==
    /\ out.called = "parse_config_statement"
    /\ out.res.st = "ok"
    /\ decl.option.name = "default-lease-time"

C9_ValidLifetimePlacement ==
    LifetimeStored =>
        LET inner == Innermost(decl.stack, Len(decl.stack))
            outer == Innermost(decl.stack, inner - 1)
        IN  /\ (/\ decl.stack[inner].kind = "POOL_DECL"
                /\ outer > 0
                /\ decl.stack[outer].kind = "SUBNET_DECL")
               => StoredIn(outer, MovedComment, FALSE)
            /\ decl.stack[inner].kind = "HOST_DECL"
               => /\ StoredIn(inner, "/// valid-lifetime in unsupported scope", TRUE)
                  /\ cfile.issue_counter = 1

C9_Witness ==
    /\ LifetimeStored
    /\ [i \in 1..Len(decl.stack) |-> decl.stack[i].kind]
          = <<"ROOT_GROUP", "SUBNET_DECL", "POOL_DECL", "PARAMETER">>
    /\ mapContains(cfile.stack[2].elem, "valid-lifetime")
    /\ mapGet(cfile.stack[2].elem, "valid-lifetime").comments = <<MovedComment>>

(***************************************************************************)
(* C20.  When an option or config value is placed by walking the           *)
(* declaration stack from the innermost frame outward, PARAMETER frames    *)
(* are always skipped and POOL frames are skipped only in IPv4 mode: in    *)
(* IPv6 mode a value declared directly inside a pool frame is attached to  *)
(* that pool frame, for option-data and for non-special config parameters  *)
(* alike.  The value is pushed on the list of the frame the walk ends at   *)
(* and no other frame changes.                                             *)
(***************************************************************************)
RECURSIVE PlacementFrame(_, _, _)
PlacementFrame(stack, where, family) ==
    IF where = 0 THEN 0
    ELSE IF stack[where].kind = "PARAMETER"
    THEN PlacementFrame(stack, where - 1, family)
    ELSE IF family = "AF_INET" /\ stack[where].kind = "POOL_DECL"
    THEN PlacementFrame(stack, where - 1, family)
    ELSE where

ValuePlaced ==
    /\ out.called \in {"parse_config_statement", "parse_option_statement"}
    /\ out.res.st = "ok"
    /\ decl.option.status # "special"

PlacedKey == IF decl.option.space = "server" THEN "config" ELSE "option-data"

C20_PoolSkippedOnlyInIPv4 ==
    ValuePlaced =>
        LET where == PlacementFrame(decl.stack, Len(decl.stack), cfile.local_family)
        IN  /\ Len(cfile.stack) = Len(decl.stack)
            /\ \A k \in 1..Len(decl.stack) :
                  k # where => cfile.stack[k] = decl.stack[k]
            /\ cfile.stack[where].kind = decl.stack[where].kind
            /\ mapContains(cfile.stack[where].elem, PlacedKey)
            /\ Len(mapGet(cfile.stack[where].elem, PlacedKey).vals) = 1

(***************************************************************************)
(* C28.  The "log" node built for a `log (priority, message);` statement   *)
(* holds both the priority (the string "DEBUG" when none is given) and the *)
(* message expression: no parsed operand of the statement is dropped.      *)
(***************************************************************************)
LogParsed ==
    /\ out.called = "parse_executable_statement"
    /\ cfile.toks[1].t = "LOG"
    /\ out.res.st = "ok"

LogPriorityGiven == cfile.toks[3].t \in {"FATAL", "ERROR", "TOKEN_DEBUG", "INFO"}

LogPriorityHeld ==
    /\ mapContains(out.res.node, "log")
    /\ mapContains(mapGet(out.res.node, "log"), "priority")
    /\ mapGet(mapGet(out.res.node, "log"), "priority").sval
           = (IF LogPriorityGiven THEN cfile.toks[3].val ELSE "DEBUG")

C28_LogHoldsPriorityAndMessage ==
    LogParsed
    => /\ LogPriorityHeld
       /\ \E i \in 1..Len(mapGet(out.res.node, "log").keys) :
              mapGet(out.res.node, "log").keys[i] # "priority"

(***************************************************************************)
(* C27.  A successfully parsed option statement or config statement        *)
(* consumes exactly one terminating semicolon, in each of its three forms  *)
(* (no value, `= expression`, native data), so the token right after that  *)
(* semicolon is left as the first token of the next statement.             *)
(***************************************************************************)
FirstSemi(toks) ==
    CHOOSE i \in 1..Len(toks) :
        toks[i].t = "SEMI" /\ \A j \in 1..(i - 1) : toks[j].t # "SEMI"

C27_OneSemicolonConsumed ==
    (/\ out.called \in {"parse_config_statement", "parse_option_statement"}
     /\ out.res.st = "ok")
    => /\ \E i \in 1..Len(cfile.toks) : cfile.toks[i].t = "SEMI"
       /\ cfile.pos = FirstSemi(cfile.toks) + 1

(***************************************************************************)
(* The special config parameters as a state machine: one call of           *)
(* parse_config_statement without a result element for a server option of  *)
(* status special, which hands the parsed value to its rewriter            *)
(* (config_valid_lifetime, config_file, config_sname, config_next_server,  *)
(* config_preferred_lifetime).  decl remembers the stack before the call,  *)
(* the option, and the containers that hold the value element after it.    *)
(***************************************************************************)
SpecialOptions ==
    {Option("server", "default-lease-time", 1, "T", "special"),
     Option("server", "filename", 15, "t", "special"),
     Option("server", "server-name", 16, "t", "special"),
     Option("server", "next-server", 17, "I", "special"),
     Option("server", "authoritative", 18, "f", "special"),
     Option("server", "preferred-lifetime", 53, "T", "special")}

RewriteStreams ==
    {<<Tok("EQUAL"), String("s"), Tok("SEMI")>>, <<Num(1), Tok("SEMI")>>,
     <<String("s"), Tok("SEMI")>>, <<Name("gw"), Tok("SEMI")>>,
     <<Num(1), Tok("DOT"), Num(2), Tok("DOT"), Num(3), Tok("DOT"), Num(4),
       Tok("SEMI")>>,
     <<Tok("SEMI"), Tok("SEMI")>>}

RewriteOps == {"supersede_option_statement", "default_option_statement"}

\* The element stored under "value" in the config map (mapSet at parse.c
\* 3920 and 3983) stays there: the rewriters fetch it with mapGet and store
\* the same element in a frame with mapSet, and nothing removes it from the
\* config map.  Its containers after a call that returned true are the
\* config map and every frame the call changed.
ValueOwners(before, res) ==
    IF res.st # "ok" THEN {}
    ELSE {[container |-> "config", where |-> 0]}
         \cup {[container |-> "frame", where |-> k] :
                 k \in {j \in 1..Len(before.stack) :
                          res.c.stack[j] # before.stack[j]}}

InitRewrite ==
    /\ num = NumIdle
    /\ cfile \in {[Cfile(s) EXCEPT !.options = SpecialOptions, !.stack = st,
                                   !.local_family = f, !.uninit = u] :
                    s \in RewriteStreams, st \in Stacks(MaxDepth),
                    f \in {"AF_INET", "AF_INET6"}, u \in BOOLEAN}
    /\ out = [called |-> "none", context |-> "none", res |-> NoResult]
    /\ decl = [stack |-> cfile.stack, option |-> NoOption, owners |-> {}]

ParseSpecialConfig ==
    /\ out.called = "none"
    /\ \E option \in cfile.options, op \in RewriteOps :
         /\ out' = [called |-> "parse_config_statement", context |-> op,
                    res |-> parse_config_statement(cfile, option, op, FALSE)]
         /\ decl' = [decl EXCEPT !.option = option,
                                 !.owners = ValueOwners(cfile, out'.res)]
    /\ cfile' = out'.res.c
    /\ UNCHANGED num

NextRewrite == ParseSpecialConfig

SpecRewrite == InitRewrite /\ [][NextRewrite]_vars

(***************************************************************************)
(* C21.  In every state reached while parsing, each Element has at most    *)
(* one parent: once a node has been inserted into a Map or List it is      *)
(* never inserted into a second container while still a child of the       *)
(* first; in particular a config statement's "value" node is not at the    *)
(* same time a child of the config Map and of a declaration-stack frame.   *)
(***************************************************************************)
C21_SingleParent ==
    out.called = "parse_config_statement" => Cardinality(decl.owners) <= 1

(***************************************************************************)
(* C30.  Whenever config_valid_lifetime, config_file, config_sname,        *)
(* config_next_server or config_preferred_lifetime stores the value in a   *)
(* frame other than the innermost non-PARAMETER frame of the declaration   *)
(* stack, the stored value carries a comment or the skip flag: no value    *)
(* moves to an outer frame silently.                                       *)
(***************************************************************************)
RewriterCodes == {1, 15, 16, 17, 53}

RewriterStored ==
    /\ out.called = "parse_config_statement"
    /\ out.res.st = "ok"
    /\ decl.option.code \in RewriterCodes

Relocated(k) ==
    /\ cfile.stack[k] # decl.stack[k]
    /\ k # Innermost(decl.stack, Len(decl.stack))

StoredValue(k) == cfile.stack[k].elem.vals[Len(cfile.stack[k].elem.vals)]

C30_RelocationIsFlagged ==
    RewriterStored
    => \A k \in 1..Len(decl.stack) :
          Relocated(k) => (StoredValue(k).comments # <<>> \/ StoredValue(k).skip)

(***************************************************************************)
(* skip_to_semi as a state machine: the call, then one action for each     *)
(* iteration of the do-while loop of skip_to_rbrace (parse.c 89-118).      *)
(* out.pc is the position in the function, out.brace_count its counter;    *)
(* decl remembers the parse state at the call.  The streams are all        *)
(* sequences of up to MaxSkip tokens out of a name, a semicolon and the    *)
(* two braces; the lexer gives EOL only for resolv.conf, which keama does  *)
(* not read.                                                               *)
(***************************************************************************)
MaxSkip == 5

SkipTokens == {Token("NAME", "a", <<>>), Tok("SEMI"), Tok("LBRACE"), Tok("RBRACE")}

RECURSIVE SkipStreams(_)
SkipStreams(n) ==
    IF n = 0 THEN {<<>>}
    ELSE SkipStreams(n - 1)
         \cup {Append(s, t) : s \in SkipStreams(n - 1), t \in SkipTokens}

\* one iteration whose only test of a semicolon is its kind
SkipIteration_any_semicolon(c, brace_count) ==
    LET token == peek_token(c).t
    IN  [c |-> skip_token(c),
         brace_count |-> IF token = "LBRACE" THEN brace_count + 1
                         ELSE IF token = "RBRACE" /\ brace_count > 0
                         THEN brace_count - 1 ELSE brace_count,
         done |-> \/ token \in {"SEMI", "END_OF_FILE"}
                  \/ token = "RBRACE" /\ brace_count <= 1]

\* one iteration of the loop: the parse state and the counter after it, and
\* whether the function returns
SkipIteration(c, brace_count) ==
    LET token == peek_token(c).t
        count == IF token = "RBRACE" /\ brace_count > 0 THEN brace_count - 1
                 ELSE IF token = "LBRACE" THEN brace_count + 1
                 ELSE brace_count
    IN  IF token = "RBRACE" /\ count = 0
        THEN [c |-> skip_token(c), brace_count |-> count, done |-> TRUE]
        ELSE IF token = "SEMI" /\ brace_count = 0
        THEN [c |-> skip_token(c), brace_count |-> count, done |-> TRUE]
        ELSE IF token = "EOL"
        THEN [c |-> skip_token(c), brace_count |-> count, done |-> TRUE]
        ELSE [c |-> skip_token(c), brace_count |-> count,
              done |-> token = "END_OF_FILE"]

InitSkip ==
    /\ num = NumIdle
    /\ cfile \in {Cfile(s) : s \in SkipStreams(MaxSkip)}
    /\ out = [pc |-> "idle", brace_count |-> 0]
    /\ decl = [c |-> cfile]

SkipToSemi ==
    /\ out.pc = "idle"
    /\ out' = [pc |-> "loop", brace_count |-> 0]
    /\ UNCHANGED <<num, cfile, decl>>

SkipLoop ==
    /\ out.pc = "loop"
    /\ LET it == SkipIteration(cfile, out.brace_count)
       IN  /\ cfile' = it.c
           /\ out' = [pc |-> IF it.done THEN "done" ELSE "loop",
                      brace_count |-> it.brace_count]
    /\ UNCHANGED <<num, decl>>

NextSkip == SkipToSemi \/ SkipLoop

SpecSkip == InitSkip /\ [][NextSkip]_vars

\* the function runs on once it is called: a single thread, no waiting
SpecSkipLive == SpecSkip /\ WF_vars(NextSkip)

(***************************************************************************)
(* C24.  On every finite token stream skip_to_semi terminates, and it      *)
(* consumes tokens up to and including the first of: a semicolon met at    *)
(* brace depth 0, the right brace that closes the first left brace opened  *)
(* during the skip (with nested braces balanced), an unmatched right       *)
(* brace, or end of file; a semicolon nested inside braces never ends the  *)
(* skip, and no token after the terminating one is consumed.  While it     *)
(* runs it has read no terminating token, and the result of the loop is    *)
(* the result of the function the parsers call.                            *)
(***************************************************************************)
Terminates(toks, i) ==
    \/ toks[i].t = "SEMI" /\ BraceDepth(toks, i - 1) = 0
    \/ toks[i].t = "RBRACE" /\ BraceDepth(toks, i - 1) <= 1

\* the number of tokens the skip consumes
SkipLength(toks) ==
    IF \E i \in 1..Len(toks) : Terminates(toks, i)
    THEN CHOOSE i \in 1..Len(toks) :
             Terminates(toks, i) /\ \A j \in 1..(i - 1) : ~Terminates(toks, j)
    ELSE Len(toks)

SkipEndsAtTerminator ==
    /\ out.pc = "done"
       => /\ cfile.pos = SkipLength(decl.c.toks) + 1
          /\ cfile = skip_to_semi(decl.c)
    /\ out.pc = "loop"
       => /\ cfile.pos <= Len(decl.c.toks) + 1
          /\ \A j \in 1..(cfile.pos - 1) : ~Terminates(decl.c.toks, j)

C24_SkipToSemiTerminates ==
    /\ <>(out.pc = "done")
    /\ []SkipEndsAtTerminator

C24_Witness ==
    /\ out.pc = "done"
    /\ [i \in 1..Len(decl.c.toks) |-> decl.c.toks[i].t]
          = <<"NAME", "LBRACE", "SEMI", "RBRACE", "SEMI">>
    /\ cfile.pos = 5

(***************************************************************************)
(* parse_string (parse.c 137-161).  sptr and lptr tell whether the caller  *)
(* passed the out-parameters; s and len are what is stored through them.   *)
(* parse_error is called right after malloc, whatever malloc returned.     *)
(***************************************************************************)
StringResult(st, c, s, len, err) ==
    [st |-> st, c |-> c, s |-> s, len |-> len, err |-> err]

parse_string(c, sptr, lptr) ==
    LET token == peek_token(c)
        c1 == skip_token(c)
    IN  IF token.t # "STRING" THEN StringResult("fatal", c1, <<>>, <<>>, "expecting a string")
        ELSE StringResult("fatal", c1, <<>>, <<>>, "no memory for string")

(***************************************************************************)
(* parse_string as a state machine: one call on a stream of up to three    *)
(* tokens, with and without each out-parameter.                            *)
(***************************************************************************)
StringTokens ==
    {Token("STRING", v, <<>>) : v \in {"", "s", "ab"}}
    \cup {Token("NAME", "a", <<>>), Num(1), Tok("SEMI"), Tok("RBRACE")}

StringStreams ==
    {<<>>} \cup {<<t>> \o rest : t \in StringTokens,
                                 rest \in {<<>>, <<Tok("SEMI")>>,
                                           <<Tok("SEMI"), Tok("SEMI")>>,
                                           <<Tok("SEMI"), Tok("RBRACE")>>,
                                           <<Tok("RBRACE")>>}}

InitString ==
    /\ num = NumIdle
    /\ cfile \in {Cfile(s) : s \in StringStreams}
    /\ out = [called |-> "none", sptr |-> FALSE, lptr |-> FALSE,
              res |-> StringResult("none", Cfile(<<>>), <<>>, <<>>, "")]
    /\ decl = [c |-> cfile]

ParseString ==
    /\ out.called = "none"
    /\ \E sptr \in BOOLEAN, lptr \in BOOLEAN :
         out' = [called |-> "parse_string", sptr |-> sptr, lptr |-> lptr,
                 res |-> parse_string(cfile, sptr, lptr)]
    /\ cfile' = out'.res.c
    /\ UNCHANGED <<num, decl>>

NextString == ParseString

SpecString == InitString /\ [][NextString]_vars

(***************************************************************************)
(* C25.  parse_string implements `string-parameter :== STRING SEMI`: when  *)
(* the next two tokens are a STRING and a semicolon it consumes both,      *)
(* returns a copy of the string text and its length through the            *)
(* out-parameters, and reports no error.                                   *)
(***************************************************************************)
C25_StringParameterAccepted ==
    (/\ out.called = "parse_string"
     /\ Len(decl.c.toks) >= 2
     /\ decl.c.toks[1].t = "STRING"
     /\ decl.c.toks[2].t = "SEMI")
    => /\ out.res.st = "ok"
       /\ out.res.err = ""
       /\ cfile.pos = 3
       /\ out.sptr => out.res.s = <<decl.c.toks[1].val>>
       /\ out.lptr => out.res.len = <<Len(decl.c.toks[1].val)>>

(***************************************************************************)
(* parse_config_data on the integer formats as a state machine: one number *)
(* token followed by a semicolon, on a host of either byte order.  decl    *)
(* remembers the parameter the call is made for.                           *)
(***************************************************************************)
\* the server parameters of formats B, S and L
DataOptions ==
    {Option("server", "min-secs", 14, "B", "known"),
     Option("server", "local-port", 26, "S", "known"),
     Option("server", "dynamic-bootp-lease-length", 5, "L", "known")}

DataNumbers == {NumTok("NUMBER", ds) : ds \in {d \in DigitSeqs : Len(d) <= MaxDigits + 2}}

InitData ==
    /\ num = NumIdle
    /\ cfile \in {[Cfile(<<n, Tok("SEMI")>>) EXCEPT !.little_endian = le] :
                    n \in DataNumbers, le \in BOOLEAN}
    /\ out = [called |-> "none", context |-> "none", res |-> NoResult]
    /\ decl = [stack |-> <<>>, option |-> NoOption]

ParseConfigData ==
    /\ out.called = "none"
    /\ \E option \in DataOptions :
         /\ out' = [called |-> "parse_config_data", context |-> option.format,
                    res |-> parse_config_data(createMap, cfile, option)]
         /\ decl' = [decl EXCEPT !.option = option]
    /\ cfile' = out'.res.c
    /\ UNCHANGED num

NextData == ParseConfigData

SpecData == InitData /\ [][NextData]_vars

(***************************************************************************)
(* C29.  For a parameter of integer format parse_config_data stores an     *)
(* Integer equal to the number written in the source, whatever the byte    *)
(* order of the host: n in 0..255 for format B, n in 0..65535 for format   *)
(* S, and n for format L.                                                  *)
(***************************************************************************)
WrittenNumber(str) == Magnitude(str, 0)[1] + Magnitude(str, 0)[2] * Half

C29_IntegerIndependentOfByteOrder ==
    (out.called = "parse_config_data" /\ out.res.st = "ok")
    => /\ mapContains(out.res.node, "value")
       /\ mapGet(out.res.node, "value") = createInt(WrittenNumber(cfile.toks[1].txt))

====
